---- MODULE Spec2Model ----
(***************************************************************************)
(* A model of python-typedstream: the type-encoding grammar                *)
(* (typedstream/encodings.py), the low-level event reader                  *)
(* (typedstream/stream.py, TypedStreamReader) and the unarchiver           *)
(* (typedstream/archiving.py, Unarchiver).                                 *)
(*                                                                         *)
(* Bytes are integers 0..255 and byte strings are sequences of them.  The  *)
(* raw stream is a count of unread bytes whose values are drawn when they  *)
(* are read.  One step of the reader is one next() on its generator.       *)
(***************************************************************************)
EXTENDS Integers, Sequences, FiniteSets, TLC

\* ------------------------------------------------------------------ bytes

\* The printable ASCII characters, code 32 first.
AsciiChars ==
  << " ", "!", "DQUOTE", "#", "$", "%", "&", "'", "(", ")", "*", "+", ",", "-", ".", "/",
     "0", "1", "2", "3", "4", "5", "6", "7", "8", "9", ":", ";", "<", "=", ">", "?",
     "@", "A", "B", "C", "D", "E", "F", "G", "H", "I", "J", "K", "L", "M", "N", "O",
     "P", "Q", "R", "S", "T", "U", "V", "W", "X", "Y", "Z", "[", "BACKSLASH", "]", "^", "_",
     "BACKQUOTE", "a", "b", "c", "d", "e", "f", "g", "h", "i", "j", "k", "l", "m", "n", "o",
     "p", "q", "r", "s", "t", "u", "v", "w", "x", "y", "z", "{", "|", "}", "~" >>

\* The byte value of a one-character literal.
Ord(ch) == 31 + (CHOOSE i \in 1..Len(AsciiChars) : AsciiChars[i] = ch)

\* A bytes literal b"...", written as a tuple of its characters.
Bytes(s) == [i \in 1..Len(s) |-> Ord(s[i])]

\* Python's None where a byte string is expected (no byte is negative).
None == << -1 >>

\* bytes.startswith / bytes.endswith with a one-byte argument.
StartsWith(b, ch) == Len(b) >= 1 /\ b[1] = Ord(ch)

EndsWith(b, ch) == Len(b) >= 1 /\ b[Len(b)] = Ord(ch)

\* Python's slice b[lo:hi] for 0 <= lo, with hi already non-negative.
Slice(b, lo, hi) ==
  LET h == IF hi > Len(b) THEN Len(b) ELSE hi
  IN  IF lo >= h THEN << >> ELSE SubSeq(b, lo + 1, h)

\* `x in y` for two bytes objects: the substring test.
BytesIn(x, y) ==
  \E i \in 0..(Len(y) - Len(x)) : \A j \in 1..Len(x) : y[i + j] = x[j]

\* bytes.index(ch, lo, hi): the first 0-based index in [lo, hi) holding ch, or -1
\* where Python raises ValueError.
IndexOf(b, ch, lo, hi) ==
  LET h    == IF hi > Len(b) THEN Len(b) ELSE hi
      hits == {i \in lo..(h - 1) : b[i + 1] = Ord(ch)}
  IN  IF hits = {} THEN -1 ELSE CHOOSE i \in hits : \A j \in hits : i <= j

\* ------------------------------------------------- typedstream/encodings.py

OpenParens == {Ord("("), Ord("["), Ord("{")}

CloseParens == {Ord(")"), Ord("]"), Ord("}")}

Digits == {Ord("0") + d : d \in 0..9}

\* The while loop of _end_of_encoding from index i at depth paren_depth;
\* -1 where the code raises ValueError (the string ends too early).
RECURSIVE EndOfEncodingLoop(_, _, _)
EndOfEncodingLoop(encoding, i, paren_depth) ==
  IF i >= Len(encoding) THEN -1
  ELSE LET c == encoding[i + 1]
       IN  IF c \in OpenParens THEN EndOfEncodingLoop(encoding, i + 1, paren_depth + 1)
           ELSE IF paren_depth > 0
                THEN LET d == IF c \in CloseParens THEN paren_depth - 1 ELSE paren_depth
                     IN  IF d = 0 THEN i + 1 ELSE EndOfEncodingLoop(encoding, i + 1, d)
                ELSE i + 1

\* _end_of_encoding(encoding, start): the end index, or -1 for ValueError.
EndOfEncoding(encoding, start) ==
  IF start \notin 0..(Len(encoding) - 1) THEN -1
  ELSE EndOfEncodingLoop(encoding, start, 0)

\* split_encodings, consumed to the end as list() does:
\* [ok |-> FALSE] where a ValueError escapes.
RECURSIVE SplitFrom(_, _)
SplitFrom(encodings, start) ==
  IF start >= Len(encodings) THEN [ok |-> TRUE, l |-> << >>]
  ELSE LET end == EndOfEncoding(encodings, start)
       IN  IF end < 0 THEN [ok |-> FALSE, l |-> << >>]
           ELSE LET rest == SplitFrom(encodings, end)
                IN  [ok |-> rest.ok,
                     l  |-> << Slice(encodings, start, end) >> \o rest.l]

\* A split that makes a piece of every character, brackets or not.
split_characters(encodings) ==
  [ok |-> TRUE, l |-> [i \in 1..Len(encodings) |-> << encodings[i] >>]]

split_encodings(encodings) == SplitFrom(encodings, 0)

\* join_encodings: b"".join(encodings).
RECURSIVE join_encodings(_)
join_encodings(encodings) ==
  IF encodings = << >> THEN << >>
  ELSE Head(encodings) \o join_encodings(Tail(encodings))

\* int(length_string.decode("ascii")) for a string of decimal digits.
RECURSIVE DecimalValue(_)
DecimalValue(digits) ==
  IF digits = << >> THEN 0
  ELSE 10 * DecimalValue(SubSeq(digits, 1, Len(digits) - 1))
       + (digits[Len(digits)] - Ord("0"))

\* str(length).encode("ascii") for length >= 0.
RECURSIVE DecimalString(_)
DecimalString(n) ==
  IF n < 10 THEN << Ord("0") + n >>
  ELSE DecimalString(n \div 10) \o << Ord("0") + (n % 10) >>

\* The digit-scanning loop of parse_array_encoding.
RECURSIVE ArrayDigitsEnd(_, _)
ArrayDigitsEnd(array_encoding, i) ==
  IF i < Len(array_encoding) - 1 /\ array_encoding[i + 1] \in Digits
  THEN ArrayDigitsEnd(array_encoding, i + 1)
  ELSE i

\* parse_array_encoding: (length, element_type_encoding), ok FALSE for ValueError.
parse_array_encoding(array_encoding) ==
  IF ~StartsWith(array_encoding, "[") \/ ~EndsWith(array_encoding, "]")
  THEN [ok |-> FALSE, length |-> 0, element |-> << >>]
  ELSE LET i             == ArrayDigitsEnd(array_encoding, 1)
           length_string == Slice(array_encoding, 1, i)
           element       == Slice(array_encoding, i, Len(array_encoding) - 1)
       IN  IF length_string = << >> \/ element = << >>
           THEN [ok |-> FALSE, length |-> 0, element |-> << >>]
           ELSE [ok |-> TRUE, length |-> DecimalValue(length_string), element |-> element]

\* build_array_encoding for length >= 0.
build_array_encoding(length, element_type_encoding) ==
  << Ord("[") >> \o DecimalString(length) \o element_type_encoding \o << Ord("]") >>

\* The position of the "=" that ends the struct name: searched from index 1 up
\* to the first nested "{", or up to the closing brace when there is none; -1
\* when there is no such "=".
StructEqualsPos(struct_encoding) ==
  LET brace == IndexOf(struct_encoding, "{", 1, Len(struct_encoding))
      end   == IF brace < 0 THEN Len(struct_encoding) - 1 ELSE brace
  IN  IndexOf(struct_encoding, "=", 1, end)

\* parse_struct_encoding: (name, field_type_encodings), ok FALSE for ValueError;
\* the name is None when the encoding has no "=" before its fields.
parse_struct_encoding(struct_encoding) ==
  IF ~StartsWith(struct_encoding, "{") \/ ~EndsWith(struct_encoding, "}")
  THEN [ok |-> FALSE, name |-> None, fields |-> << >>]
  ELSE LET equals_pos == StructEqualsPos(struct_encoding)
           name   == IF equals_pos < 0 THEN None
                     ELSE Slice(struct_encoding, 1, equals_pos)
           string == IF equals_pos < 0
                     THEN Slice(struct_encoding, 1, Len(struct_encoding) - 1)
                     ELSE Slice(struct_encoding, equals_pos + 1, Len(struct_encoding) - 1)
           split  == split_encodings(string)
       IN  [ok |-> split.ok, name |-> name, fields |-> split.l]

\* build_struct_encoding.
build_struct_encoding(name, field_type_encodings) ==
  IF name = None
  THEN << Ord("{") >> \o join_encodings(field_type_encodings) \o << Ord("}") >>
  ELSE << Ord("{") >> \o name \o << Ord("=") >>
       \o join_encodings(field_type_encodings) \o << Ord("}") >>

\* The name test of encoding_matches_expected.
StructNameMatches(actual_name, expected_name) ==
  actual_name \in {None, Bytes(<< "?" >>)} \/ actual_name = expected_name

\* encoding_matches_expected and all_encodings_match_expected: "true", "false",
\* or "ValueError" when a parse raises.  `and` and all() stop at the first false.
RECURSIVE encoding_matches_expected(_, _)
RECURSIVE AllMatchFrom(_, _, _)
AllMatchFrom(actual_encodings, expected_encodings, i) ==
  IF i > Len(actual_encodings) THEN "true"
  ELSE LET m == encoding_matches_expected(actual_encodings[i], expected_encodings[i])
       IN  IF m = "true" THEN AllMatchFrom(actual_encodings, expected_encodings, i + 1)
           ELSE m

all_encodings_match_expected(actual_encodings, expected_encodings) ==
  IF Len(actual_encodings) # Len(expected_encodings) THEN "false"
  ELSE AllMatchFrom(actual_encodings, expected_encodings, 1)

encoding_matches_expected(actual_encoding, expected_encoding) ==
  IF StartsWith(actual_encoding, "{") /\ StartsWith(expected_encoding, "{")
  THEN LET a == parse_struct_encoding(actual_encoding)
           e == parse_struct_encoding(expected_encoding)
       IN  IF ~a.ok \/ ~e.ok THEN "ValueError"
           ELSE IF ~StructNameMatches(a.name, e.name) THEN "false"
           ELSE all_encodings_match_expected(a.fields, e.fields)
  ELSE IF StartsWith(actual_encoding, "[") /\ StartsWith(expected_encoding, "[")
  THEN LET a == parse_array_encoding(actual_encoding)
           e == parse_array_encoding(expected_encoding)
       IN  IF ~a.ok \/ ~e.ok THEN "ValueError"
           ELSE IF a.length # e.length THEN "false"
           ELSE encoding_matches_expected(a.element, e.element)
  ELSE IF actual_encoding = expected_encoding THEN "true" ELSE "false"

\* --------------------------------------------------- typedstream/stream.py

STREAMER_VERSION_OLD_NEXTSTEP == 3

STREAMER_VERSION_CURRENT == 4

SIGNATURE_BIG_ENDIAN == Bytes(<< "t", "y", "p", "e", "d", "s", "t", "r", "e", "a", "m" >>)

SIGNATURE_LITTLE_ENDIAN == Bytes(<< "s", "t", "r", "e", "a", "m", "t", "y", "p", "e", "d" >>)

SIGNATURE_LENGTH == Len(SIGNATURE_BIG_ENDIAN)

TAG_INTEGER_2 == -127

TAG_INTEGER_4 == -126

TAG_FLOATING_POINT == -125

TAG_NEW == -124

TAG_NIL == -123

TAG_END_OF_OBJECT == -122

FIRST_TAG == -128

LAST_TAG == -111

TAG_RANGE == FIRST_TAG..LAST_TAG

FIRST_REFERENCE_NUMBER == LAST_TAG + 1

\* _decode_reference_number.
decode_reference_number(encoded) == encoded - FIRST_REFERENCE_NUMBER

\* A head argument of None: the head byte has not been read yet.
NoHead == 999

\* int.from_bytes(data, "big", signed=False).
RECURSIVE UnsignedBig(_)
UnsignedBig(data) ==
  IF data = << >> THEN 0
  ELSE 256 * UnsignedBig(SubSeq(data, 1, Len(data) - 1)) + data[Len(data)]

\* reversed(data).
RECURSIVE Reversed(_)
Reversed(data) ==
  IF data = << >> THEN << >> ELSE Reversed(Tail(data)) \o << Head(data) >>

\* int.from_bytes(data, byte_order, signed=signed): a signed value whose top bit
\* is set is minus one minus the value of the complemented bytes.
from_bytes(data, order, signed) ==
  LET big == IF order = "little" THEN Reversed(data) ELSE data
  IN  IF signed /\ big # << >> /\ big[1] >= 128
      THEN -1 - UnsignedBig([i \in 1..Len(big) |-> 255 - big[i]])
      ELSE UnsignedBig(big)

\* list.__getitem__(i) on a Python list held as a sequence: a negative index
\* counts from the end; ok FALSE where Python raises IndexError.
PyIndexOk(list, i) == -Len(list) <= i /\ i < Len(list)

PyIndex(list, i) == IF i >= 0 THEN list[i + 1] ELSE list[Len(list) + i + 1]

\* A reader event.  Every event has the same fields so that events compare:
\* t the event type, k a referenced type, n a number, s a byte string, l a list
\* of byte strings.
Event(t, k, n, s, l) == [t |-> t, k |-> k, n |-> n, s |-> s, l |-> l]

NoEvent == Event("", "", 0, << >>, << >>)

EvNone == Event("None", "", 0, << >>, << >>)

EvInt(v) == Event("int", "", v, << >>, << >>)

EvBool(v) == Event("bool", "", v, << >>, << >>)

EvFloat(raw) == Event("float", "", 0, raw, << >>)

EvBytes(b) == Event("bytes", "", 0, b, << >>)

BeginTypedValues(encodings) == Event("BeginTypedValues", "", 0, << >>, encodings)

EndTypedValues == Event("EndTypedValues", "", 0, << >>, << >>)

ObjectReference(referenced_type, number) ==
  Event("ObjectReference", referenced_type, number, << >>, << >>)

Atom(contents) == Event("Atom", "", 0, contents, << >>)

Selector(name) == Event("Selector", "", 0, name, << >>)

CString(contents) == Event("CString", "", 0, contents, << >>)

SingleClass(name, version) == Event("SingleClass", "", version, name, << >>)

BeginObject == Event("BeginObject", "", 0, << >>, << >>)

EndObject == Event("EndObject", "", 0, << >>, << >>)

ByteArray(element_encoding, data) == Event("ByteArray", "", 0, data, << element_encoding >>)

BeginArray(element_encoding, length) ==
  Event("BeginArray", "", length, << >>, << element_encoding >>)

EndArray == Event("EndArray", "", 0, << >>, << >>)

BeginStruct(name, field_encodings) == Event("BeginStruct", "", 0, name, field_encodings)

EndStruct == Event("EndStruct", "", 0, << >>, << >>)

\* A suspended generator of the reader: k is the method (all: _read_all_values,
\* tv: _read_typed_values, obj: _read_object, class: _read_class, array and
\* struct: the loops of _read_value_with_encoding), encs the type encodings
\* still to read (for array: the element encoding), n the elements still to
\* read.
Frame(k, encs, n) == [k |-> k, encs |-> encs, n |-> n]

\* ------------------------------------------------------ the raw byte stream

\* The raw streams read are drawn from two families.  A stream of the first
\* holds objects: its head bytes are the tags of objects and classes, the
\* reference numbers 0 and 1, and the integer 1; its strings are the type
\* encodings of an object and of a C string, which also serve as class names.
\* It has up to MaxBytes bytes, header included.
MaxBytes == 29

ObjectHeads ==
  { 256 + TAG_NEW, 256 + TAG_NIL, 256 + TAG_END_OF_OBJECT,
    256 + FIRST_REFERENCE_NUMBER, 256 + FIRST_REFERENCE_NUMBER + 1, 1 }

ObjectStrings == { Bytes(<< "@" >>), Bytes(<< "*" >>) }

\* A stream of the second family holds integers and structs, in groups of one
\* or two values.  It has up to MaxValueBytes bytes, header included.
MaxValueBytes == 25

ValueHeads == { 256 + TAG_NEW, 256 + TAG_NIL, 256 + FIRST_REFERENCE_NUMBER, 1, 2, 6 }

ValueStrings ==
  { Bytes(<< "i" >>), Bytes(<< "i", "i" >>),
    Bytes(<< "{", "?", "=", "f", "f", "}" >>) }

\* A raw stream not read yet: the number of its bytes, and the bytes and strings
\* its contents are drawn from as they are read.
Stream(unread, heads, strings) ==
  [unread |-> unread, heads |-> heads, strings |-> strings, written |-> FALSE, data |-> << >>]

\* A raw stream not read yet whose bytes are all written down: data.
WrittenStream(data) ==
  [unread |-> Len(data), heads |-> { }, strings |-> { }, written |-> TRUE, data |-> data]

\* A stream of the third family holds values of the primitive types, one to a
\* group: its head bytes are every kind of tag, the plain integers 0, 1, 3 and
\* -1, and the first and last bytes of the tag range; its strings are type
\* encodings, well formed, unknown (X) and malformed, the encoding of an object,
\* which also serves as a class name, and the string of no bytes.  It has up to
\* MaxPrimitiveBytes bytes, header included.
MaxPrimitiveBytes == 22

PrimitiveHeads ==
  { 256 + TAG_INTEGER_2, 256 + TAG_INTEGER_4, 256 + TAG_FLOATING_POINT,
    256 + TAG_NEW, 256 + TAG_NIL, 256 + FIRST_TAG, 256 + LAST_TAG, 0, 1, 3, 255 }

PrimitiveStrings ==
  { Bytes(<< "B" >>), Bytes(<< "c" >>), Bytes(<< "C" >>), Bytes(<< "i" >>),
    Bytes(<< "I" >>), Bytes(<< "X" >>), Bytes(<< "{" >>), Bytes(<< "[", "c", "]" >>),
    Bytes(<< "[", "1", "i", "]" >>), Bytes(<< "@" >>), << >> }

PrimitiveStreams ==
  { Stream(unread, PrimitiveHeads, PrimitiveStrings) : unread \in 0..MaxPrimitiveBytes }

\* A stream of the fourth family holds C strings, one to a group: its strings
\* are the type encoding of a C string, which is also the contents of one, and a
\* string that is a single NUL byte.  It has up to MaxCStringBytes bytes, header
\* included.
MaxCStringBytes == 23

CStringHeads ==
  { 256 + TAG_NEW, 256 + TAG_NIL, 256 + FIRST_REFERENCE_NUMBER,
    256 + FIRST_REFERENCE_NUMBER + 1, 1 }

CStringStrings == { Bytes(<< "*" >>), << 0 >> }

CStringStreams ==
  { Stream(unread, CStringHeads, CStringStrings) : unread \in 0..MaxCStringBytes }

\* A stream of the fifth family holds data objects: its head bytes are
\* TAG_NEW, the lengths of its strings and the integers 0, 1, 2 and -1; its
\* strings are the type encodings of an int and of arrays of chars.  It has up
\* to MaxDataBytes bytes, header included.
MaxDataBytes == 26

DataHeads == { 256 + TAG_NEW, 0, 1, 2, 4, 255 }

DataStrings ==
  { Bytes(<< "i" >>), Bytes(<< "[", "0", "c", "]" >>), Bytes(<< "[", "1", "c", "]" >>),
    Bytes(<< "[", "2", "c", "]" >>), Bytes(<< "[", "1", "C", "]" >>) }

DataStreams ==
  { Stream(unread, DataHeads, DataStrings) : unread \in 0..MaxDataBytes }

\* A stream of the sixth family holds arrays: its head bytes are TAG_NEW, the
\* lengths of its strings and the integers 1 and 2; its strings are the type
\* encodings of arrays of chars, of ints and of the element Cc.  It has up to
\* MaxArrayBytes bytes, header included.
MaxArrayBytes == 23

ArrayHeads == { 256 + TAG_NEW, 1, 2, 4, 5 }

ArrayStrings ==
  { Bytes(<< "[", "2", "c", "]" >>), Bytes(<< "[", "1", "C", "]" >>),
    Bytes(<< "[", "2", "i", "]" >>), Bytes(<< "[", "0", "i", "]" >>),
    Bytes(<< "[", "1", "C", "c", "]" >>) }

ArrayStreams ==
  { Stream(unread, ArrayHeads, ArrayStrings) : unread \in 0..MaxArrayBytes }

\* What a big-endian system writes first: the streamer version, the signature
\* with its length, and the system version 1000 as a 2-byte integer.
WrittenHeader ==
  << STREAMER_VERSION_CURRENT, SIGNATURE_LENGTH >> \o SIGNATURE_BIG_ENDIAN
    \o << 256 + TAG_INTEGER_2, 3, 232 >>

\* A literal shared string as written: TAG_NEW, the length, the bytes.
WrittenString(string) == << 256 + TAG_NEW, Len(string) >> \o string

\* A reference number as written in a head byte.
WrittenReference(number) == << 256 + FIRST_REFERENCE_NUMBER + number >>

\* The written streams of references: a group i and a second group whose type
\* encoding is a reference, and a C string and a second C string that is a
\* reference.  The reference number is 0 in the head byte, 1 in the head byte
\* (not assigned), or -1 in the 2-byte and in the 4-byte form.
ReferenceNumbers ==
  { WrittenReference(0), WrittenReference(1),
    << 256 + TAG_INTEGER_2, 255, 145 >>, << 256 + TAG_INTEGER_4, 255, 255, 255, 145 >> }

ReferenceStreams ==
  { WrittenStream(WrittenHeader \o WrittenString(Bytes(<< "i" >>)) \o << 1 >>
                    \o number \o << 2 >>) : number \in ReferenceNumbers }
  \cup { WrittenStream(WrittenHeader \o WrittenString(Bytes(<< "*" >>))
                         \o << 256 + TAG_NEW >> \o WrittenString(Bytes(<< "a", "b" >>))
                         \o WrittenReference(0) \o number) : number \in ReferenceNumbers }
  \cup { WrittenStream(WrittenHeader \o WrittenString(Bytes(<< "i" >>)) \o number) :
           number \in ReferenceNumbers }

\* A literal class as written: TAG_NEW, the name as a shared string, the version.
WrittenClass(name, version) == << 256 + TAG_NEW >> \o WrittenString(name) \o << version >>

\* The class chains written: one, two or three literal classes A, B, C with
\* their versions.
WrittenChains ==
  { WrittenClass(Bytes(<< "A" >>), 0),
    WrittenClass(Bytes(<< "A" >>), 1) \o WrittenClass(Bytes(<< "B" >>), 0),
    WrittenClass(Bytes(<< "A" >>), 0) \o WrittenClass(Bytes(<< "B" >>), 2)
      \o WrittenClass(Bytes(<< "C" >>), 0) }

\* What ends a written class chain: nil, the reference numbers 0 and 1 in the
\* head byte, or -1 in the 2-byte form.
WrittenTerminators ==
  { << 256 + TAG_NIL >>, WrittenReference(0), WrittenReference(1),
    << 256 + TAG_INTEGER_2, 255, 145 >> }

\* The written streams of classes: a group # with a class chain, then either a
\* second group # with a class chain, or a group @ with an object of a class
\* chain; or a group @ with an object first.
ClassStreams ==
  { WrittenStream(WrittenHeader \o WrittenString(Bytes(<< "#" >>)) \o chain \o end
                    \o WrittenReference(0) \o WrittenClass(Bytes(<< "D" >>), 3) \o last) :
      chain \in WrittenChains, end \in WrittenTerminators, last \in WrittenTerminators }
  \cup { WrittenStream(WrittenHeader \o WrittenString(Bytes(<< "#" >>)) \o chain
                         \o << 256 + TAG_NIL >> \o WrittenString(Bytes(<< "@" >>))
                         \o << 256 + TAG_NEW >> \o WrittenClass(Bytes(<< "D" >>), 3) \o last
                         \o << 256 + TAG_END_OF_OBJECT >>) :
           chain \in WrittenChains, last \in WrittenTerminators }
  \cup { WrittenStream(WrittenHeader \o WrittenString(Bytes(<< "@" >>))
                         \o << 256 + TAG_NEW >> \o chain \o end
                         \o << 256 + TAG_END_OF_OBJECT >>) :
           chain \in WrittenChains \cup { << >> }, end \in WrittenTerminators }

\* A group of one integer as written, its type encoding a literal string.
WrittenInteger(number) == WrittenString(Bytes(<< "i" >>)) \o << number >>

\* A group + as written: the type encoding, then the length and the bytes.
WrittenBytes(string) == WrittenString(Bytes(<< "+" >>)) \o << Len(string) >> \o string

\* A literal object as written: TAG_NEW, the class chain with its terminator,
\* the groups of the object, TAG_END_OF_OBJECT.
WrittenObject(chain, groups) ==
  << 256 + TAG_NEW >> \o chain \o groups \o << 256 + TAG_END_OF_OBJECT >>

WrittenNil == << 256 + TAG_NIL >>

\* The class chains of the written objects, by the names of the registered
\* classes: chains as the classes declare them with versions the hooks
\* implement or not, chains that differ from the declared ones, and chains of
\* the unregistered class Foo.
WrittenNSObject == WrittenClass(Bytes(<< "N", "S", "O", "b", "j", "e", "c", "t" >>), 0)

WrittenNSString(version) ==
  WrittenClass(Bytes(<< "N", "S", "S", "t", "r", "i", "n", "g" >>), version)

WrittenNSMutableString(version) ==
  WrittenClass(Bytes(<< "N", "S", "M", "u", "t", "a", "b", "l", "e",
                        "S", "t", "r", "i", "n", "g" >>), version)

WrittenObjectClass == WrittenClass(Bytes(<< "O", "b", "j", "e", "c", "t" >>), 0)

WrittenList(version) == WrittenClass(Bytes(<< "L", "i", "s", "t" >>), version)

WrittenNSClassSwapper(version) ==
  WrittenClass(Bytes(<< "N", "S", "C", "l", "a", "s", "s", "S", "w", "a", "p", "p", "e", "r" >>),
               version)

WrittenFoo == WrittenClass(Bytes(<< "F", "o", "o" >>), 0)

KnownChains ==
  { WrittenNSObject \o WrittenNil,
    WrittenClass(Bytes(<< "N", "S", "O", "b", "j", "e", "c", "t" >>), 1) \o WrittenNil,
    WrittenNSString(1) \o WrittenNSObject \o WrittenNil,
    WrittenNSString(2) \o WrittenNSObject \o WrittenNil,
    WrittenNSMutableString(1) \o WrittenNSString(1) \o WrittenNSObject \o WrittenNil,
    WrittenNSMutableString(2) \o WrittenNSString(1) \o WrittenNSObject \o WrittenNil,
    WrittenNSMutableString(1) \o WrittenNSString(3) \o WrittenNSObject \o WrittenNil,
    WrittenNSMutableString(1) \o WrittenNSObject \o WrittenNil,
    WrittenNSString(1) \o WrittenNil,
    WrittenNSObject \o WrittenObjectClass \o WrittenNil,
    WrittenNSMutableString(1) \o WrittenNSString(1) \o WrittenObjectClass \o WrittenNil,
    WrittenFoo \o WrittenNSString(1) \o WrittenNSObject \o WrittenNil,
    WrittenFoo \o WrittenNil,
    WrittenList(0) \o WrittenObjectClass \o WrittenNil,
    WrittenList(1) \o WrittenObjectClass \o WrittenNil,
    WrittenList(2) \o WrittenObjectClass \o WrittenNil,
    WrittenNSClassSwapper(42) \o WrittenNSObject \o WrittenNil,
    WrittenNSClassSwapper(41) \o WrittenNSObject \o WrittenNil }

\* The first value written in the group @# of an NSClassSwapper: an NSString,
\* nil, an NSObject, an NSMutableString, or a Foo whose superclass is NSString.
WrittenClassNames ==
  { WrittenObject(WrittenNSString(1) \o WrittenNSObject \o WrittenNil,
                  WrittenBytes(Bytes(<< "X" >>))),
    WrittenNil,
    WrittenObject(WrittenNSObject \o WrittenNil, << >>),
    WrittenObject(WrittenNSMutableString(1) \o WrittenNSString(1) \o WrittenNSObject
                    \o WrittenNil,
                  WrittenBytes(Bytes(<< "X" >>))),
    WrittenObject(WrittenFoo \o WrittenNSString(1) \o WrittenNSObject \o WrittenNil,
                  WrittenBytes(Bytes(<< "X" >>))) }

\* The second value written in the group @# and what is written after the
\* group for the template: the class Foo, the class NSObject, nil, the class
\* NSString with its group +, or the class NSString that has no superclass.
WrittenTemplates ==
  { WrittenFoo \o WrittenNil,
    WrittenNSObject \o WrittenNil,
    WrittenNil,
    WrittenNSString(1) \o WrittenNSObject \o WrittenNil \o WrittenBytes(Bytes(<< "Y" >>)),
    WrittenNSString(1) \o WrittenNil }

\* The groups written for an object before its trailing groups.
KnownGroups ==
  { << >>,
    WrittenBytes(Bytes(<< "X" >>)),
    WrittenBytes(<< 195, 169 >>),
    WrittenBytes(<< 255 >>),
    WrittenString(Bytes(<< "+" >>)) \o WrittenNil,
    WrittenInteger(0),
    WrittenInteger(255),
    WrittenInteger(1) \o WrittenString(Bytes(<< "[", "1", "@", "]" >>)) \o WrittenNil,
    WrittenString(Bytes(<< "i", "i" >>)) \o << 1, 1 >>
      \o WrittenString(Bytes(<< "[", "1", "@", "]" >>))
      \o WrittenObject(WrittenNSObject \o WrittenNil, << >>),
    WrittenString(Bytes(<< "@", "@" >>)) \o WrittenNil \o WrittenNil,
    WrittenString(Bytes(<< "#" >>)) \o WrittenNil }
  \cup { WrittenString(Bytes(<< "@", "#" >>)) \o class_name \o template :
           class_name \in WrittenClassNames, template \in WrittenTemplates }

\* The groups written at the end of an object: none, one or two.
TrailingGroups == { << >>, WrittenInteger(5), WrittenInteger(5) \o WrittenInteger(6) }

\* The written streams of objects of registered classes: one group @ with one
\* object.
KnownStreams ==
  { WrittenStream(WrittenHeader \o WrittenString(Bytes(<< "@" >>))
                    \o WrittenObject(chain, groups \o trailing)) :
      chain \in KnownChains, groups \in KnownGroups, trailing \in TrailingGroups }

Streams ==
  { Stream(unread, ObjectHeads, ObjectStrings) : unread \in 0..MaxBytes }
  \cup { Stream(unread, ValueHeads, ValueStrings) : unread \in 0..MaxValueBytes }

\* The byte pairs drawn after TAG_INTEGER_2: 1 in either byte order, and -111 in
\* either byte order (the reference number one below the first).
Int2Catalog == { << 0, 1 >>, << 255, 145 >>, << 145, 255 >> }

\* The bytes drawn after TAG_INTEGER_4.
Int4Catalog == { << 0, 0, 0, 1 >> }

\* The bytes drawn for values that are read raw (B, c, C, byte arrays).
RawCatalog == { << 0 >>, << 1 >>, << 2 >>, << 256 + TAG_NEW >>, << 1, 2 >> }

\* The bytes drawn after TAG_FLOATING_POINT.
FloatCatalog == { << 63, 128, 0, 0 >>, << 63, 240, 0, 0, 0, 0, 0, 0 >> }

\* What a read operation works on: unread, heads and strings are the raw stream,
\* byte_order and shared_string_table are the reader's attributes.
\* Kept for the properties: literals lists the shared strings read literally so
\* far, reference is the last shared-string reference resolved, as
\* << decoded index, value >>, short tells that a read got fewer bytes than
\* it asked for, and raw is the last byte read for a boolean or a char, or the
\* last bytes read after TAG_INTEGER_2 or TAG_INTEGER_4.  closed tells that the
\* raw stream is closed, and close_stream is the reader's _close_stream, true as
\* from_data and open pass it.
Context(stream, byte_order, shared_string_table, literals, reference) ==
  [unread |-> stream.unread, heads |-> stream.heads, strings |-> stream.strings,
   written |-> stream.written, data |-> stream.data,
   byte_order |-> byte_order, shared_string_table |-> shared_string_table,
   literals |-> literals, reference |-> reference, short |-> FALSE, raw |-> << >>,
   closed |-> FALSE, close_stream |-> TRUE]

\* The result of a read operation that raises st: v is 0 or empty as the
\* operation returns a number or a string.
RaiseN(st, c) == [st |-> st, v |-> 0, c |-> c]

RaiseS(st, c) == [st |-> st, v |-> << >>, c |-> c]

\* _read_exact: stream.read(byte_count) returns the next byte_count bytes, here
\* any string of the catalog of that length, or fewer when the stream ends; the
\* read of a closed stream raises ValueError.  A written stream gives the bytes
\* written in it.
ReadExact(c, byte_count, catalog) ==
  IF c.closed THEN { RaiseS("ValueError", c) }
  ELSE IF c.unread < byte_count
  THEN { RaiseS("InvalidTypedStreamError", [c EXCEPT !.unread = 0, !.short = TRUE]) }
  ELSE IF c.written
  THEN { [st |-> "ok",
          v  |-> SubSeq(c.data, Len(c.data) - c.unread + 1,
                        Len(c.data) - c.unread + byte_count),
          c  |-> [c EXCEPT !.unread = @ - byte_count]] }
  ELSE { [st |-> "ok", v |-> data, c |-> [c EXCEPT !.unread = @ - byte_count]] :
           data \in {d \in catalog : Len(d) = byte_count} }

\* _read_head_byte.
ReadHeadByte(c, head) ==
  IF head # NoHead THEN { [st |-> "ok", v |-> head, c |-> c] }
  ELSE { IF r.st = "ok"
         THEN [st |-> "ok", v |-> from_bytes(r.v, c.byte_order, TRUE), c |-> r.c]
         ELSE RaiseN(r.st, r.c) :
           r \in ReadExact(c, 1, {<< b >> : b \in c.heads}) }

\* Integers read most significant byte first whatever the byte order.
ReadIntegerBigEndian(c, head, signed) ==
  IF head \notin TAG_RANGE
  THEN { [st |-> "ok", v |-> IF signed THEN head ELSE head % 256, c |-> c] }
  ELSE IF head = TAG_INTEGER_2
  THEN { IF r.st = "ok"
         THEN [st |-> "ok", v |-> from_bytes(r.v, "big", signed), c |-> [r.c EXCEPT !.raw = r.v]]
         ELSE RaiseN(r.st, r.c) : r \in ReadExact(c, 2, Int2Catalog) }
  ELSE IF head = TAG_INTEGER_4
  THEN { IF r.st = "ok"
         THEN [st |-> "ok", v |-> from_bytes(r.v, "big", signed), c |-> [r.c EXCEPT !.raw = r.v]]
         ELSE RaiseN(r.st, r.c) : r \in ReadExact(c, 4, Int4Catalog) }
  ELSE { RaiseN("InvalidTypedStreamError", c) }

\* The branches of _read_integer once the head byte is known; raw keeps the
\* bytes read after the head byte.
ReadIntegerBody(c, head, signed) ==
  IF head \notin TAG_RANGE
  THEN { [st |-> "ok", v |-> IF signed THEN head ELSE head % 256, c |-> c] }
  ELSE IF head = TAG_INTEGER_2
  THEN { IF r.st = "ok"
         THEN [st |-> "ok", v |-> from_bytes(r.v, c.byte_order, signed),
               c |-> [r.c EXCEPT !.raw = r.v]]
         ELSE RaiseN(r.st, r.c) : r \in ReadExact(c, 2, Int2Catalog) }
  ELSE IF head = TAG_INTEGER_4
  THEN { IF r.st = "ok"
         THEN [st |-> "ok", v |-> from_bytes(r.v, c.byte_order, signed),
               c |-> [r.c EXCEPT !.raw = r.v]]
         ELSE RaiseN(r.st, r.c) : r \in ReadExact(c, 4, Int4Catalog) }
  ELSE { RaiseN("InvalidTypedStreamError", c) }

\* _read_integer.
ReadInteger(c, head, signed) ==
  UNION { IF h.st # "ok" THEN { h } ELSE ReadIntegerBody(h.c, h.v, signed) :
            h \in ReadHeadByte(c, head) }

\* _read_unshared_string: v is None for nil.
ReadUnsharedString(c, head) ==
  UNION { IF h.st # "ok" THEN { RaiseS(h.st, h.c) }
          ELSE IF h.v = TAG_NIL THEN { [st |-> "ok", v |-> None, c |-> h.c] }
          ELSE UNION { IF length.st # "ok" THEN { RaiseS(length.st, length.c) }
                       ELSE ReadExact(length.c, length.v, length.c.strings) :
                         length \in ReadInteger(h.c, h.v, FALSE) } :
            h \in ReadHeadByte(c, head) }

\* A literal string read without a place in the shared_string_table.
ReadLiteralUnshared(c) ==
  { IF u.st # "ok" THEN u
    ELSE IF u.v = None THEN RaiseS("InvalidTypedStreamError", u.c)
    ELSE [u EXCEPT !.c.literals = Append(@, u.v)] :
      u \in ReadUnsharedString(c, NoHead) }

\* The literal branch of _read_shared_string: the string is appended to the
\* shared_string_table.
ReadNewSharedString(c) ==
  { IF u.st # "ok" THEN u
    ELSE IF u.v = None THEN RaiseS("InvalidTypedStreamError", u.c)
    ELSE [u EXCEPT !.c.shared_string_table = Append(@, u.v), !.c.literals = Append(@, u.v)] :
      u \in ReadUnsharedString(c, NoHead) }

\* The reference branch of _read_shared_string.
ReadSharedStringReference(c, head) ==
  { IF n.st # "ok" THEN RaiseS(n.st, n.c)
    ELSE LET decoded == decode_reference_number(n.v)
         IN  IF ~PyIndexOk(n.c.shared_string_table, decoded) THEN RaiseS("IndexError", n.c)
             ELSE [st |-> "ok", v |-> PyIndex(n.c.shared_string_table, decoded),
                   c  |-> [n.c EXCEPT !.reference = << decoded, PyIndex(n.c.shared_string_table, decoded) >>]] :
      n \in ReadInteger(c, head, TRUE) }

\* _read_shared_string: v is None for nil.
ReadSharedString(c, head) ==
  UNION { IF h.st # "ok" THEN { RaiseS(h.st, h.c) }
          ELSE IF h.v = TAG_NIL THEN { [st |-> "ok", v |-> None, c |-> h.c] }
          ELSE IF h.v = TAG_NEW THEN ReadNewSharedString(h.c)
          ELSE ReadSharedStringReference(h.c, h.v) :
            h \in ReadHeadByte(c, head) }

\* What resuming a generator gives: st is "ok" and ev the event it yields, or st
\* names what it raises; push lists the generators it has entered and
\* suspended, outermost first.
Yield(ev, c, push) == [st |-> "ok", ev |-> ev, c |-> c, push |-> push]

Raise(st, c) == [st |-> st, ev |-> NoEvent, c |-> c, push |-> << >>]

\* _read_object_reference.
ReadObjectReference(c, referenced_type, head) ==
  { IF n.st # "ok" THEN Raise(n.st, n.c)
    ELSE Yield(ObjectReference(referenced_type, decode_reference_number(n.v)), n.c, << >>) :
      n \in ReadInteger(c, head, TRUE) }

\* A C string read without looking at its bytes.
ReadCStringUnchecked(c, head) ==
  UNION { IF h.st # "ok" THEN { Raise(h.st, h.c) }
          ELSE IF h.v = TAG_NIL THEN { Yield(EvNone, h.c, << >>) }
          ELSE IF h.v = TAG_NEW
          THEN { IF string.st # "ok" THEN Raise(string.st, string.c)
                 ELSE IF string.v = None THEN Raise("InvalidTypedStreamError", string.c)
                 ELSE Yield(CString(string.v), string.c, << >>) :
                   string \in ReadSharedString(h.c, NoHead) }
          ELSE ReadObjectReference(h.c, "C string", h.v) :
            h \in ReadHeadByte(c, head) }

\* _read_c_string.
ReadCString(c, head) ==
  UNION { IF h.st # "ok" THEN { Raise(h.st, h.c) }
          ELSE IF h.v = TAG_NIL THEN { Yield(EvNone, h.c, << >>) }
          ELSE IF h.v = TAG_NEW
          THEN { IF string.st # "ok" THEN Raise(string.st, string.c)
                 ELSE IF string.v = None THEN Raise("InvalidTypedStreamError", string.c)
                 ELSE IF \E i \in 1..Len(string.v) : string.v[i] = 0
                 THEN Raise("InvalidTypedStreamError", string.c)
                 ELSE Yield(CString(string.v), string.c, << >>) :
                   string \in ReadSharedString(h.c, NoHead) }
          ELSE ReadObjectReference(h.c, "C string", h.v) :
            h \in ReadHeadByte(c, head) }

\* One pass of the loop of _read_class that yields a SingleClass.
ReadSingleClass(c) ==
  UNION { IF name.st # "ok" THEN { Raise(name.st, name.c) }
          ELSE IF name.v = None THEN { Raise("InvalidTypedStreamError", name.c) }
          ELSE { IF version.st # "ok" THEN Raise(version.st, version.c)
                 ELSE Yield(SingleClass(name.v, version.v), version.c,
                            << Frame("class", << >>, 0) >>) :
                   version \in ReadInteger(name.c, NoHead, TRUE) } :
            name \in ReadSharedString(c, NoHead) }

\* _read_class, from reading the head byte to its next yield.
ReadClass(c, head) ==
  UNION { IF h.st # "ok" THEN { Raise(h.st, h.c) }
          ELSE IF h.v = TAG_NEW THEN ReadSingleClass(h.c)
          ELSE IF h.v = TAG_NIL THEN { Yield(EvNone, h.c, << >>) }
          ELSE ReadObjectReference(h.c, "class", h.v) :
            h \in ReadHeadByte(c, head) }

\* An object read without the class that follows BeginObject.
ReadObjectClassless(c, head) ==
  UNION { IF h.st # "ok" THEN { Raise(h.st, h.c) }
          ELSE IF h.v = TAG_NIL THEN { Yield(EvNone, h.c, << >>) }
          ELSE IF h.v = TAG_NEW
          THEN { Yield(BeginObject, h.c, << Frame("obj", << >>, 0) >>) }
          ELSE ReadObjectReference(h.c, "object", h.v) :
            h \in ReadHeadByte(c, head) }

\* _read_object up to its first yield.
ReadObject(c, head) ==
  UNION { IF h.st # "ok" THEN { Raise(h.st, h.c) }
          ELSE IF h.v = TAG_NIL THEN { Yield(EvNone, h.c, << >>) }
          ELSE IF h.v = TAG_NEW
          THEN { Yield(BeginObject, h.c,
                       << Frame("obj", << >>, 0), Frame("class", << >>, 0) >>) }
          ELSE ReadObjectReference(h.c, "object", h.v) :
            h \in ReadHeadByte(c, head) }

\* _read_float (size 4) and _read_double (size 8): the value read after
\* TAG_FLOATING_POINT is kept as its bytes, most significant first.
ReadFloat(c, head, size) ==
  UNION { IF h.st # "ok" THEN { Raise(h.st, h.c) }
          ELSE IF h.v = TAG_FLOATING_POINT
          THEN { IF r.st # "ok" THEN Raise(r.st, r.c)
                 ELSE Yield(EvFloat(IF c.byte_order = "little" THEN Reversed(r.v) ELSE r.v),
                            r.c, << >>) :
                   r \in ReadExact(h.c, size, FloatCatalog) }
          ELSE { IF n.st # "ok" THEN Raise(n.st, n.c)
                 ELSE Yield(Event("float", "", n.v, << >>, << >>), n.c, << >>) :
                   n \in ReadInteger(h.c, h.v, TRUE) } :
            h \in ReadHeadByte(c, head) }

\* The array branch of _read_value_with_encoding.
ReadArray(c, type_encoding) ==
  LET parsed == parse_array_encoding(type_encoding)
  IN  IF ~parsed.ok THEN { Raise("ValueError", c) }
      ELSE IF BytesIn(parsed.element, Bytes(<< "C", "c" >>))
      THEN { IF r.st # "ok" THEN Raise(r.st, r.c)
             ELSE Yield(ByteArray(parsed.element, r.v), r.c, << >>) :
               r \in ReadExact(c, parsed.length, RawCatalog) }
      ELSE { Yield(BeginArray(parsed.element, parsed.length), c,
                   << Frame("array", << parsed.element >>, parsed.length) >>) }

\* The struct branch of _read_value_with_encoding.
ReadStruct(c, type_encoding) ==
  LET parsed == parse_struct_encoding(type_encoding)
  IN  IF ~parsed.ok THEN { Raise("ValueError", c) }
      ELSE { Yield(BeginStruct(parsed.name, parsed.fields), c,
                   << Frame("struct", parsed.fields, 0) >>) }

\* An integer or string read turned into the event that carries it.
YieldInt(r) == IF r.st # "ok" THEN Raise(r.st, r.c) ELSE Yield(EvInt(r.v), r.c, << >>)

\* A char read as the integers are: with a head byte that may be a tag.
ReadCharTagged(c, signed) == { YieldInt(r) : r \in ReadInteger(c, NoHead, signed) }

\* The branches of _read_value_with_encoding for C and c: one byte, read
\* literally.
ReadChar(c, signed) ==
  { IF r.st # "ok" THEN Raise(r.st, r.c)
    ELSE Yield(EvInt(from_bytes(r.v, c.byte_order, signed)), [r.c EXCEPT !.raw = r.v], << >>) :
      r \in ReadExact(c, 1, RawCatalog) }

\* _read_value_with_encoding up to its first yield.
ReadValueWithEncoding(c, type_encoding, head) ==
  IF type_encoding = Bytes(<< "B" >>)
  THEN { IF r.st # "ok" THEN Raise(r.st, r.c)
         ELSE IF r.v[1] = 0 THEN Yield(EvBool(0), [r.c EXCEPT !.raw = r.v], << >>)
         ELSE IF r.v[1] = 1 THEN Yield(EvBool(1), [r.c EXCEPT !.raw = r.v], << >>)
         ELSE Raise("InvalidTypedStreamError", [r.c EXCEPT !.raw = r.v]) :
           r \in ReadExact(c, 1, RawCatalog) }
  ELSE IF type_encoding = Bytes(<< "C" >>) THEN ReadChar(c, FALSE)
  ELSE IF type_encoding = Bytes(<< "c" >>) THEN ReadChar(c, TRUE)
  ELSE IF BytesIn(type_encoding, Bytes(<< "S", "I", "L", "Q" >>))
  THEN { YieldInt(r) : r \in ReadInteger(c, head, FALSE) }
  ELSE IF BytesIn(type_encoding, Bytes(<< "s", "i", "l", "q" >>))
  THEN { YieldInt(r) : r \in ReadInteger(c, head, TRUE) }
  ELSE IF type_encoding = Bytes(<< "f" >>) THEN ReadFloat(c, head, 4)
  ELSE IF type_encoding = Bytes(<< "d" >>) THEN ReadFloat(c, head, 8)
  ELSE IF type_encoding = Bytes(<< "*" >>) THEN ReadCString(c, head)
  ELSE IF type_encoding = Bytes(<< "%" >>)
  THEN { IF r.st # "ok" THEN Raise(r.st, r.c) ELSE Yield(Atom(r.v), r.c, << >>) :
           r \in ReadSharedString(c, head) }
  ELSE IF type_encoding = Bytes(<< ":" >>)
  THEN { IF r.st # "ok" THEN Raise(r.st, r.c) ELSE Yield(Selector(r.v), r.c, << >>) :
           r \in ReadSharedString(c, head) }
  ELSE IF type_encoding = Bytes(<< "+" >>)
  THEN { IF r.st # "ok" THEN Raise(r.st, r.c)
         ELSE IF r.v = None THEN Yield(EvNone, r.c, << >>)
         ELSE Yield(EvBytes(r.v), r.c, << >>) :
           r \in ReadUnsharedString(c, head) }
  ELSE IF type_encoding = Bytes(<< "#" >>) THEN ReadClass(c, head)
  ELSE IF type_encoding = Bytes(<< "@" >>) THEN ReadObject(c, head)
  ELSE IF type_encoding = Bytes(<< "!" >>) THEN { Yield(EvNone, c, << >>) }
  ELSE IF StartsWith(type_encoding, "[") THEN ReadArray(c, type_encoding)
  ELSE IF StartsWith(type_encoding, "{") THEN ReadStruct(c, type_encoding)
  ELSE { Raise("InvalidTypedStreamError", c) }

\* An end of the stream that is an error wherever it falls.
EndOfStreamInvalid(end_of_stream_ok) == "InvalidTypedStreamError"

\* What _read_typed_values does with a head byte it could not read.
EndOfStream(end_of_stream_ok) ==
  IF end_of_stream_ok THEN "EOFError" ELSE "InvalidTypedStreamError"

\* _read_typed_values once its head byte is read, up to its first yield.
ReadTypeEncodings(c, head) ==
  { IF string.st # "ok" THEN Raise(string.st, string.c)
    ELSE IF string.v = None THEN Raise("InvalidTypedStreamError", string.c)
    ELSE IF string.v = << >> THEN Raise("InvalidTypedStreamError", string.c)
    ELSE LET type_encodings == split_encodings(string.v)
         IN  IF ~type_encodings.ok THEN Raise("ValueError", string.c)
             ELSE Yield(BeginTypedValues(type_encodings.l), string.c,
                        << Frame("tv", type_encodings.l, 0) >>) :
      string \in ReadSharedString(c, head) }

\* _read_typed_values up to its first yield.
ReadTypedValues(c, head, end_of_stream_ok) ==
  UNION { IF h.st = "InvalidTypedStreamError"
          THEN { Raise(EndOfStream(end_of_stream_ok), h.c) }
          ELSE IF h.st # "ok" THEN { Raise(h.st, h.c) }
          ELSE ReadTypeEncodings(h.c, h.v) :
            h \in ReadHeadByte(c, head) }

\* _read_object resumed after the class or after a group of typed values.
ResumeObject(c) ==
  UNION { IF next_head.st # "ok" THEN { Raise(next_head.st, next_head.c) }
          ELSE IF next_head.v = TAG_END_OF_OBJECT
          THEN { [st |-> "end", ev |-> EndObject, c |-> next_head.c, push |-> << >>] }
          ELSE ReadTypedValues(next_head.c, next_head.v, FALSE) :
            next_head \in ReadHeadByte(c, NoHead) }

\* What next() gives when the generators raise st: _read_all_values, the
\* outermost, catches the reader's own EOFError and returns.
Propagate(st) == IF st = "EOFError" THEN "StopIteration" ELSE st

\* One next() on the reader's generators, the innermost being the last of
\* stack: the set of [st, ev, c, stack] it can give.
Resume(stack, c) ==
  LET top   == stack[Len(stack)]
      below == SubSeq(stack, 1, Len(stack) - 1)
      Continue(rs, kept) ==
        { [st |-> Propagate(r.st), ev |-> r.ev, c |-> r.c,
           stack |-> IF r.st = "ok" THEN kept \o r.push ELSE << >>] : r \in rs }
      Return(ev) == { [st |-> "ok", ev |-> ev, c |-> c, stack |-> below] }
  IN  IF top.k = "all" THEN Continue(ReadTypedValues(c, NoHead, TRUE), stack)
      ELSE IF top.k = "tv"
      THEN IF top.encs = << >> THEN Return(EndTypedValues)
           ELSE Continue(ReadValueWithEncoding(c, Head(top.encs), NoHead),
                         Append(below, Frame("tv", Tail(top.encs), 0)))
      ELSE IF top.k = "struct"
      THEN IF top.encs = << >> THEN Return(EndStruct)
           ELSE Continue(ReadValueWithEncoding(c, Head(top.encs), NoHead),
                         Append(below, Frame("struct", Tail(top.encs), 0)))
      ELSE IF top.k = "array"
      THEN IF top.n = 0 THEN Return(EndArray)
           ELSE Continue(ReadValueWithEncoding(c, top.encs[1], NoHead),
                         Append(below, Frame("array", top.encs, top.n - 1)))
      ELSE IF top.k = "class" THEN Continue(ReadClass(c, NoHead), below)
      ELSE { IF r.st = "end"
             THEN [st |-> "ok", ev |-> r.ev, c |-> r.c, stack |-> below]
             ELSE [st |-> Propagate(r.st), ev |-> r.ev, c |-> r.c,
                   stack |-> IF r.st = "ok" THEN stack \o r.push ELSE << >>] :
               r \in ResumeObject(c) }


\* The first two bytes drawn for a header: streamer version, signature length.
HeaderStartCatalog ==
  { << streamer_version, signature_length >> :
      streamer_version \in { 2, STREAMER_VERSION_OLD_NEXTSTEP, STREAMER_VERSION_CURRENT, 5 },
      signature_length \in { SIGNATURE_LENGTH - 1, SIGNATURE_LENGTH, SIGNATURE_LENGTH + 1 } }

\* The signatures drawn for a header.
SignatureCatalog ==
  { SIGNATURE_BIG_ENDIAN, SIGNATURE_LITTLE_ENDIAN,
    Bytes(<< "t", "y", "p", "e", "d", "s", "t", "r", "e", "a", "M" >>) }

\* A map that gives every signature the big-endian byte order.
SIGNATURE_TO_BIG_ENDIAN(signature) == "big"

\* _SIGNATURE_TO_BYTE_ORDER_MAP: "" stands for a KeyError.
SIGNATURE_TO_BYTE_ORDER_MAP(signature) ==
  IF signature = SIGNATURE_BIG_ENDIAN THEN "big"
  ELSE IF signature = SIGNATURE_LITTLE_ENDIAN THEN "little"
  ELSE ""

\* The part of _read_header after the signature length is accepted.
ReadSignature(c, start) ==
  UNION { IF signature.st # "ok" THEN { [signature EXCEPT !.v = start] }
          ELSE IF SIGNATURE_TO_BYTE_ORDER_MAP(signature.v) = ""
          THEN { [st |-> "InvalidTypedStreamError", v |-> start \o signature.v,
                  c |-> signature.c] }
          ELSE { [st |-> system_version.st, v |-> start \o signature.v,
                  c |-> system_version.c] :
                   system_version \in
                     ReadInteger([signature.c EXCEPT
                                    !.byte_order = SIGNATURE_TO_BYTE_ORDER_MAP(signature.v)],
                                 NoHead, FALSE) } :
            signature \in ReadExact(c, start[2], SignatureCatalog) }

\* What _read_header gives when it rejects the bytes start.v it has read.
Reject(start) == [st |-> "InvalidTypedStreamError", v |-> start.v, c |-> start.c]

\* _read_header: the set of [st, v, c] with v the version, length and signature
\* bytes it has read.
ReadHeader(c) ==
  UNION { IF start.st # "ok" THEN { start }
          ELSE IF start.v[1] < STREAMER_VERSION_OLD_NEXTSTEP
                  \/ start.v[1] > STREAMER_VERSION_CURRENT
          THEN { Reject(start) }
          ELSE IF start.v[1] = STREAMER_VERSION_OLD_NEXTSTEP THEN { Reject(start) }
          ELSE IF start.v[2] # SIGNATURE_LENGTH THEN { Reject(start) }
          ELSE ReadSignature(start.c, start.v) :
            start \in ReadExact(c, 2, HeaderStartCatalog) }

\* ------------------------------------------------------------ archiving.py

\* A decoded value.  Every value has the same fields so that values compare:
\* t the Python type, n a number (for a Class or an object: its identity, the
\* index in heap), s a byte string, l the contained values, e type encodings.
Val(t, n, s, l, e) == [t |-> t, n |-> n, s |-> s, l |-> l, e |-> e]

ValNone == Val("None", 0, << >>, << >>, << >>)

\* A bytes attribute of an event that is None where the stream had nil.
ValBytes(contents) ==
  IF contents = None THEN ValNone ELSE Val("bytes", 0, contents, << >>, << >>)

\* An event that is itself the value: None, an int, a float or bytes.
ValOfEvent(first) == Val(first.t, first.n, first.s, << >>, << >>)

ValClass(id) == Val("Class", id, << >>, << >>, << >>)

\* Array(elements): the elements are bytes, or a list of values.
ArrayOfBytes(data) == Val("Array", 0, data, << >>, << Bytes(<< "c" >>) >>)

ArrayOfValues(elements) == Val("Array", 0, << >>, elements, << >>)

GenericStruct(name, fields) == Val("GenericStruct", 0, name, fields, << >>)

\* python_struct_class(*fields).
KnownStruct(python_struct_class, fields) == Val(python_struct_class, 0, << >>, fields, << >>)

TypedGroup(encodings, values) == Val("TypedGroup", 0, << >>, values, encodings)

TypedValue(encoding, value) == Val("TypedValue", 0, << >>, << value >>, << encoding >>)

\* A Python list or tuple of values.
ValList(values) == Val("list", 0, << >>, values, << >>)

\* The objects with identity: Class, GenericArchivedObject and the instances of
\* the registered classes.  Kept for the properties: hooks lists the calls of
\* _init_from_unarchiver_ made on an object so far, each with its class and the
\* class_version it was given.
Class(name, version, superclass) ==
  [k |-> "Class", name |-> name, version |-> version, superclass |-> superclass,
   clazz |-> 0, super_object |-> 0, contents |-> << >>, hooks |-> << >>]

GenericArchivedObject(clazz, super_object, contents) ==
  [k |-> "GenericArchivedObject", name |-> << >>, version |-> 0, superclass |-> 0,
   clazz |-> clazz, super_object |-> super_object, contents |-> contents, hooks |-> << >>]

\* The struct classes of types/foundation.py.
NSPointEncoding ==
  build_struct_encoding(Bytes(<< "_", "N", "S", "P", "o", "i", "n", "t" >>),
                        << Bytes(<< "f" >>), Bytes(<< "f" >>) >>)

NSSizeEncoding ==
  build_struct_encoding(Bytes(<< "_", "N", "S", "S", "i", "z", "e" >>),
                        << Bytes(<< "f" >>), Bytes(<< "f" >>) >>)

NSRectEncoding ==
  build_struct_encoding(Bytes(<< "_", "N", "S", "R", "e", "c", "t" >>),
                        << NSPointEncoding, NSSizeEncoding >>)

\* struct_classes_by_encoding[encoding]: "" stands for a KeyError.
struct_classes_by_encoding(encoding) ==
  IF encoding = NSPointEncoding THEN "NSPoint"
  ELSE IF encoding = NSSizeEncoding THEN "NSSize"
  ELSE IF encoding = NSRectEncoding THEN "NSRect"
  ELSE ""

\* python_struct_class.field_encodings.
field_encodings(python_struct_class) ==
  IF python_struct_class = "NSRect" THEN << NSPointEncoding, NSSizeEncoding >>
  ELSE << Bytes(<< "f" >>), Bytes(<< "f" >>) >>

\* An entry of shared_object_table.
Shared(type, obj) == [type |-> type, obj |-> obj]

\* A suspended call of the Unarchiver: k names the method and where it waits,
\* expected is its expected_encoding, encodings the encodings it works through,
\* values what it has collected (for an object: obj), n a number
\* (placeholder_index, or the elements still to decode), name a struct name, cls
\* a python_struct_class.
Call(k, expected, encodings, values, n, name, cls) ==
  [k |-> k, expected |-> expected, encodings |-> encodings, values |-> values,
   n |-> n, name |-> name, cls |-> cls]

Waiting(k) == Call(k, << >>, << >>, << >>, 0, << >>, "")

\* decode_any_untyped_value(expected_encoding), about to take its first event.
AnyUntypedValue(expected_encoding) ==
  Call("decode_any_untyped_value", expected_encoding, << >>, << >>, 0, << >>, "")

\* What _lookup_reference did last: the reference it was given, and the object
\* it returned or what it raised.
Lookup(referenced_type, number, st, obj) ==
  [referenced_type |-> referenced_type, number |-> number, st |-> st, obj |-> obj]

NoLookup == Lookup("", 0, "", ValNone)

\* A lookup that does not compare the types.
lookup_reference_of_any_type(shared_object_table, ref) ==
  IF ~PyIndexOk(shared_object_table, ref.n)
  THEN Lookup(ref.k, ref.n, "IndexError", ValNone)
  ELSE Lookup(ref.k, ref.n, "ok", PyIndex(shared_object_table, ref.n).obj)

\* A lookup that gives an equal Class instead of the shared one: a Class of the
\* same name constructed anew has another identity.
lookup_reference_by_value(shared_object_table, ref) ==
  IF ~PyIndexOk(shared_object_table, ref.n)
  THEN Lookup(ref.k, ref.n, "IndexError", ValNone)
  ELSE IF ref.k # PyIndex(shared_object_table, ref.n).type
  THEN Lookup(ref.k, ref.n, "ValueError", ValNone)
  ELSE IF ref.k # "class"
  THEN Lookup(ref.k, ref.n, "ok", PyIndex(shared_object_table, ref.n).obj)
  ELSE Lookup(ref.k, ref.n, "ok",
              [PyIndex(shared_object_table, ref.n).obj EXCEPT !.n = @ + 1])

\* _lookup_reference.
lookup_reference(shared_object_table, ref) ==
  IF ~PyIndexOk(shared_object_table, ref.n)
  THEN Lookup(ref.k, ref.n, "IndexError", ValNone)
  ELSE IF ref.k # PyIndex(shared_object_table, ref.n).type
  THEN Lookup(ref.k, ref.n, "ValueError", ValNone)
  ELSE Lookup(ref.k, ref.n, "ok", PyIndex(shared_object_table, ref.n).obj)

\* The archived_name of the registered classes modelled.
NSObject == Bytes(<< "N", "S", "O", "b", "j", "e", "c", "t" >>)

Object == Bytes(<< "O", "b", "j", "e", "c", "t" >>)

NSString == Bytes(<< "N", "S", "S", "t", "r", "i", "n", "g" >>)

NSMutableString ==
  Bytes(<< "N", "S", "M", "u", "t", "a", "b", "l", "e", "S", "t", "r", "i", "n", "g" >>)

NSClassSwapper ==
  Bytes(<< "N", "S", "C", "l", "a", "s", "s", "S", "w", "a", "p", "p", "e", "r" >>)

List == Bytes(<< "L", "i", "s", "t" >>)

\* archived_classes_by_name: the root classes of types/foundation.py and
\* types/nextstep.py, the strings of types/foundation.py, List of
\* types/nextstep.py and NSClassSwapper of types/appkit.py.
archived_classes_by_name ==
  { NSObject, Object, NSString, NSMutableString, NSClassSwapper, List }

\* cls.__bases__[0] of a registered class, as its archived_name: << >> stands
\* for KnownArchivedObject, the base of a root class.
base_cls(cls) ==
  IF cls = NSString THEN NSObject
  ELSE IF cls = NSMutableString THEN NSString
  ELSE IF cls = NSClassSwapper THEN NSObject
  ELSE IF cls = List THEN Object
  ELSE << >>

\* A hook that takes every class_version.
AnyVersion(cls, class_version) == TRUE

\* The test of class_version each _init_from_unarchiver_ begins with: FALSE
\* where it raises ValueError.
IsImplemented(cls, class_version) ==
  IF cls = NSString \/ cls = NSMutableString THEN ~(class_version # 1)
  ELSE IF cls = NSClassSwapper THEN ~(class_version # 42)
  ELSE IF cls = List THEN class_version = 0 \/ class_version = 1
  ELSE ~(class_version # 0)

\* A lookup that does not try the superclasses.
lookup_exact_class(heap, archived_class) ==
  IF heap[archived_class].name \in archived_classes_by_name THEN archived_class ELSE 0

\* lookup_archived_class: the identity of the found archived class, 0 for a
\* LookupError.
RECURSIVE lookup_archived_class(_, _)
lookup_archived_class(heap, archived_class) ==
  IF archived_class = 0 THEN 0
  ELSE IF heap[archived_class].name \in archived_classes_by_name THEN archived_class
  ELSE lookup_archived_class(heap, heap[archived_class].superclass)

\* An instance of a registered class: name is its archived_name, contents its
\* attributes in the order they are assigned.  Kept for the properties: clazz
\* is the archived class init_from_unarchiver was called with.
KnownArchivedObject(name) ==
  [k |-> "KnownArchivedObject", name |-> name, version |-> 0, superclass |-> 0,
   clazz |-> 0, super_object |-> 0, contents |-> << >>, hooks |-> << >>]

\* instantiate_archived_class: the heap with the new objects; obj is the last of
\* it, superclass the found archived class.
instantiate_archived_class(heap, archived_class) ==
  LET superclass == lookup_archived_class(heap, archived_class)
  IN  IF superclass = 0
      THEN Append(heap, GenericArchivedObject(archived_class, 0, << >>))
      ELSE IF superclass # archived_class
      THEN heap \o << KnownArchivedObject(heap[superclass].name),
                      GenericArchivedObject(archived_class, Len(heap) + 1, << >>) >>
      ELSE Append(heap, KnownArchivedObject(heap[superclass].name))

\* A call of _init_from_unarchiver_ of the class cls with class_version.
Hook(cls, class_version) == Val("hook", class_version, cls, << >>, << >>)

\* What init_from_unarchiver does besides the hooks: st is what its tests of
\* the archived classes raise, "ok" if nothing, and hooks the calls of
\* _init_from_unarchiver_ it makes before, in order.
Hooks(st, hooks) == [st |-> st, hooks |-> hooks]

\* An init_from_unarchiver that calls the hook of a class before it raises for
\* the superclass of that class.
RECURSIVE init_from_unarchiver_hook_first(_, _, _)
init_from_unarchiver_hook_first(heap, cls, archived_class) ==
  LET superclass == heap[archived_class].superclass
      own == Hook(cls, heap[archived_class].version)
  IN  IF base_cls(cls) = << >>
      THEN IF superclass # 0 THEN Hooks("ValueError", << own >>)
           ELSE Hooks("ok", << own >>)
      ELSE IF superclass = 0 THEN Hooks("ValueError", << own >>)
      ELSE IF heap[superclass].name # base_cls(cls) THEN Hooks("ValueError", << own >>)
      ELSE LET base == init_from_unarchiver_hook_first(heap, base_cls(cls), superclass)
           IN  IF base.st # "ok" THEN base
               ELSE Hooks("ok", Append(base.hooks, own))

\* An init_from_unarchiver that calls the hook of a class before the hooks of
\* its base classes.
RECURSIVE init_from_unarchiver_own_first(_, _, _)
init_from_unarchiver_own_first(heap, cls, archived_class) ==
  LET superclass == heap[archived_class].superclass
      own == Hook(cls, heap[archived_class].version)
  IN  IF base_cls(cls) = << >>
      THEN IF superclass # 0 THEN Hooks("ValueError", << >>)
           ELSE Hooks("ok", << own >>)
      ELSE IF superclass = 0 THEN Hooks("ValueError", << >>)
      ELSE IF heap[superclass].name # base_cls(cls) THEN Hooks("ValueError", << >>)
      ELSE LET base == init_from_unarchiver_own_first(heap, base_cls(cls), superclass)
           IN  IF base.st # "ok" THEN base
               ELSE Hooks("ok", << own >> \o base.hooks)

\* The init_from_unarchiver that __init_subclass__ gives the class cls, called
\* with archived_class: the archived class of a root class has no superclass,
\* that of another class has a superclass with the archived_name of base_cls;
\* then base_cls.init_from_unarchiver with the superclass, then the hook of
\* cls with the version of archived_class.
RECURSIVE init_from_unarchiver(_, _, _)
init_from_unarchiver(heap, cls, archived_class) ==
  LET superclass == heap[archived_class].superclass
      own == Hook(cls, heap[archived_class].version)
  IN  IF base_cls(cls) = << >>
      THEN IF superclass # 0 THEN Hooks("ValueError", << >>)
           ELSE Hooks("ok", << own >>)
      ELSE IF superclass = 0 THEN Hooks("ValueError", << >>)
      ELSE IF heap[superclass].name # base_cls(cls) THEN Hooks("ValueError", << >>)
      ELSE LET base == init_from_unarchiver(heap, base_cls(cls), superclass)
           IN  IF base.st # "ok" THEN base
               ELSE Hooks("ok", Append(base.hooks, own))

\* The Unarchiver between two events: calls are its suspended calls, outermost
\* first, raised what it raised ("" if nothing) and returned what the
\* outermost call returned.
Raising(u, st) == [u EXCEPT !.raised = st, !.calls = << >>]

Returning(u) == [u EXCEPT !.calls = SubSeq(@, 1, Len(@) - 1)]

Calling(u, call) == [u EXCEPT !.calls = Append(@, call)]

Replacing(u, call) == [u EXCEPT !.calls[Len(u.calls)] = call]

\* New Class objects that all have next_superclass as their superclass.
RECURSIVE NewClassesUnlinked(_, _, _)
NewClassesUnlinked(heap, single_classes, next_superclass) ==
  IF single_classes = << >> THEN heap
  ELSE LET single_class == single_classes[Len(single_classes)]
       IN  NewClassesUnlinked(Append(heap, Class(single_class.s, single_class.n,
                                                 next_superclass)),
                              SubSeq(single_classes, 1, Len(single_classes) - 1),
                              next_superclass)

\* The new Class objects of a class chain, appended to the heap in the order
\* they are constructed: the last of single_classes first.
RECURSIVE NewClasses(_, _, _)
NewClasses(heap, single_classes, next_superclass) ==
  IF single_classes = << >> THEN heap
  ELSE LET single_class == single_classes[Len(single_classes)]
       IN  NewClasses(Append(heap, Class(single_class.s, single_class.n, next_superclass)),
                      SubSeq(single_classes, 1, Len(single_classes) - 1),
                      Len(heap) + 1)

\* The entries of new_classes in the order the classes are constructed.
ClassEntriesAsConstructed(heap, single_classes) ==
  [i \in 1..Len(single_classes) |-> Shared("class", ValClass(Len(heap) + i))]

\* The entries appended for new_classes: in the order stored in the stream, the
\* first of single_classes, constructed last, first.
ClassEntries(heap, single_classes) ==
  [i \in 1..Len(single_classes) |->
     Shared("class", ValClass(Len(heap) + Len(single_classes) - i + 1))]

\* known_obj: the super_object of a GenericArchivedObject, which is 0 if it has
\* none, and any other object itself.
known_obj(heap, obj) ==
  IF heap[obj].k = "GenericArchivedObject" THEN heap[obj].super_object ELSE obj

\* known_obj.init_from_unarchiver(unarchiver, archived_class) is called: the
\* call holds self and the hooks not called yet, and in cls what it raises
\* after them.
InitFromUnarchiver(u, self, archived_class) ==
  LET todo == init_from_unarchiver(u.heap, u.heap[self].name, archived_class)
  IN  Calling([u EXCEPT !.heap[self].clazz = archived_class],
              Call("init_from_unarchiver", << >>, << >>,
                   << Val("KnownArchivedObject", self, << >>, << >>, << >>) >> \o todo.hooks,
                   archived_class, << >>, todo.st))

\* An object constructed without a place in the shared_object_table: the
\* placeholder stays.
CreateObjectUnshared(u, placeholder_index, archived_class) ==
  LET heap == instantiate_archived_class(u.heap, archived_class)
      obj == Len(heap)
  IN  Replacing([u EXCEPT !.heap = heap],
                Call("object_end", << >>, << >>,
                     << Val(heap[obj].k, obj, << >>, << >>, << >>) >>,
                     placeholder_index, << >>, ""))

\* The object of decode_any_untyped_value's BeginObject branch once its class is
\* known, up to the next event it asks for.
CreateObject(u, placeholder_index, archived_class) ==
  LET heap == instantiate_archived_class(u.heap, archived_class)
      obj == Len(heap)
      superclass == lookup_archived_class(u.heap, archived_class)
      created ==
        [u EXCEPT !.heap = heap,
                  !.shared_object_table[placeholder_index + 1] =
                     Shared("object", Val(heap[obj].k, obj, << >>, << >>, << >>))]
      begun ==
        Replacing(created,
                  Call("object_end", << >>, << >>,
                       << Val(heap[obj].k, obj, << >>, << >>, << >>) >>,
                       placeholder_index, << >>, ""))
  IN  IF known_obj(heap, obj) = 0 THEN begun
      ELSE InitFromUnarchiver(begun, known_obj(heap, obj), superclass)

\* The first of values, however many there are.
FirstRoot(values) ==
  IF values = << >> THEN [st |-> "ValueError", value |-> ValNone]
  ELSE [st |-> "ok", value |-> values[1].l[1]]

\* decode_single_root once decode_all has returned values.
SingleRoot(values) ==
  IF values = << >> THEN [st |-> "ValueError", value |-> ValNone]
  ELSE IF Len(values) > 1 THEN [st |-> "ValueError", value |-> ValNone]
  ELSE IF values[1].t # "TypedValue" THEN [st |-> "ValueError", value |-> ValNone]
  ELSE [st |-> "ok", value |-> values[1].l[1]]

\* An argument of decode_values_of_types that is a registered class.
ValType(cls) == Val("type", 0, cls, << >>, << >>)

\* expected_type_encodings of decode_values_of_types: @ for a class.
ExpectedTypeEncodings(type_encodings) ==
  [i \in 1..Len(type_encodings) |->
     IF type_encodings[i].t = "type" THEN Bytes(<< "@" >>) ELSE type_encodings[i].s]

\* decode_values_of_types(*type_encodings) up to its call of
\* decode_typed_values: expected holds its arguments.
ValuesOfTypesCall(type_encodings) ==
  Call("decode_values_of_types", type_encodings, ExpectedTypeEncodings(type_encodings),
       << >>, 0, << >>, "")

\* The calls decode_value_of_type(type_encoding) makes up to its first
\* next(self.reader).
ValueOfType(type_encoding) ==
  << Waiting("decode_value_of_type"),
     ValuesOfTypesCall(<< ValBytes(type_encoding) >>),
     Waiting("decode_typed_values_begin") >>

\* A data object whose length is not looked at before its array is decoded.
DataLengthUnchecked(u, length) ==
  [Replacing(u, Call("decode_data_array", << >>, << >>, << length >>, 0, << >>, ""))
     EXCEPT !.calls = @ \o ValueOfType(build_array_encoding(length.n, Bytes(<< "c" >>)))]

\* decode_data_object once decode_value_of_type(b"i") has returned length, up
\* to the next event it asks for.
DataLength(u, length) ==
  IF length.n < 0 THEN Raising(u, "ValueError")
  ELSE [Replacing(u, Call("decode_data_array", << >>, << >>, << length >>, 0, << >>, ""))
          EXCEPT !.calls = @ \o ValueOfType(build_array_encoding(length.n, Bytes(<< "c" >>)))]

\* Objects that all allow extra data.
allows_any_extra_data(heap, obj) == TRUE

\* obj._allows_extra_data_(): true of a GenericArchivedObject, of an
\* NSClassSwapper what it is of its template, false of every other instance of a
\* registered class.
RECURSIVE allows_extra_data(_, _)
allows_extra_data(heap, obj) ==
  IF heap[obj].k = "GenericArchivedObject" THEN TRUE
  ELSE IF heap[obj].name = NSClassSwapper
  THEN allows_extra_data(heap, heap[obj].contents[3].n)
  ELSE FALSE

\* obj._add_extra_field_(field): the heap afterwards, or the TypeError an
\* instance of a registered class raises.
RECURSIVE add_extra_field(_, _, _)
add_extra_field(heap, obj, field) ==
  IF heap[obj].k = "GenericArchivedObject"
  THEN [st |-> "ok", heap |-> [heap EXCEPT ![obj].contents = Append(@, field)]]
  ELSE IF heap[obj].name = NSClassSwapper
  THEN add_extra_field(heap, heap[obj].contents[3].n, field)
  ELSE [st |-> "TypeError", heap |-> heap]

\* A call returns value to its caller, the last of u.calls, which runs up to the
\* next event it asks for.
RECURSIVE Return(_, _)
Return(u, value) ==
  IF u.calls = << >> THEN [u EXCEPT !.returned = value]
  ELSE
  LET caller == u.calls[Len(u.calls)]
      values == Append(caller.values, value)
  IN  IF caller.k = "decode_all"
      THEN Replacing(u, [caller EXCEPT !.values = values])
      ELSE IF caller.k = "decode_single_root"
      THEN IF SingleRoot(value.l).st # "ok" THEN Raising(u, SingleRoot(value.l).st)
           ELSE Return(Returning(u), SingleRoot(value.l).value)
      ELSE IF caller.k = "decode_value_of_type"
      THEN IF Len(value.l) # 1 THEN Raising(u, "ValueError")
           ELSE Return(Returning(u), value.l[1])
      ELSE IF caller.k = "decode_values_of_types"
      THEN Replacing(u, [caller EXCEPT !.k = "decode_values_of_types_check",
                                       !.values = << value >>])
      ELSE IF caller.k = "decode_typed_values"
      THEN IF Len(values) < Len(caller.encodings)
           THEN Calling(Replacing(u, [caller EXCEPT !.values = values]),
                        AnyUntypedValue(caller.encodings[Len(values) + 1]))
           ELSE Replacing(u, [caller EXCEPT !.k = "decode_typed_values_end",
                                            !.values = values])
      ELSE IF caller.k = "object_class"
      THEN IF value.t # "Class" THEN Raising(u, "ValueError")
           ELSE CreateObject(u, caller.n, value.n)
      ELSE IF caller.k = "object_end"
      THEN IF add_extra_field(u.heap, caller.values[1].n, value).st # "ok"
           THEN Raising(u, add_extra_field(u.heap, caller.values[1].n, value).st)
           ELSE [u EXCEPT !.heap = add_extra_field(u.heap, caller.values[1].n, value).heap]
      ELSE IF caller.k = "_init_from_unarchiver_"
      THEN Replacing(u, [caller EXCEPT !.values = values])
      ELSE IF caller.k = "decode_data_object" THEN DataLength(u, value)
      ELSE IF caller.k = "decode_data_array"
      THEN IF value.t # "Array" \/ value.e = << >> THEN Raising(u, "AssertionError")
           ELSE Return(Returning(u), ValBytes(value.s))
      ELSE IF caller.k = "array"
      THEN IF caller.n > 1
           THEN Calling(Replacing(u, [caller EXCEPT !.values = values, !.n = @ - 1]),
                        AnyUntypedValue(caller.expected))
           ELSE Replacing(u, [caller EXCEPT !.k = "array_end", !.values = values, !.n = 0])
      ELSE IF caller.encodings # << >>
      THEN Calling(Replacing(u, [caller EXCEPT !.values = values,
                                               !.encodings = Tail(@)]),
                   AnyUntypedValue(Head(caller.encodings)))
      ELSE Replacing(u, [caller EXCEPT !.k = "struct_end", !.values = values])

\* issubclass of two registered classes.
RECURSIVE issubclass(_, _)
issubclass(cls, base) ==
  IF cls = base THEN TRUE
  ELSE IF base_cls(cls) = << >> THEN FALSE
  ELSE issubclass(base_cls(cls), base)

\* isinstance without the special case of _KnownArchivedClass.
type_instancecheck(heap, instance, cls) ==
  instance.t = "KnownArchivedObject" /\ issubclass(heap[instance.n].name, cls)

\* _KnownArchivedClass.__instancecheck__: isinstance(instance, cls) for a
\* registered class cls.
instancecheck(heap, instance, cls) ==
  \/ instance.t = "KnownArchivedObject" /\ issubclass(heap[instance.n].name, cls)
  \/ /\ instance.t = "GenericArchivedObject"
     /\ heap[instance.n].super_object # 0
     /\ issubclass(heap[heap[instance.n].super_object].name, cls)

\* decode_values_of_types once decode_typed_values has returned the group that
\* is the only one of its values.
ValuesOfTypes(u) ==
  LET call == u.calls[Len(u.calls)]
      group == call.values[1]
      type_encodings == call.expected
  IN  IF all_encodings_match_expected(group.e, call.encodings) # "true"
      THEN Raising(u, "ValueError")
      ELSE IF \E i \in 1..Len(type_encodings) :
                /\ i <= Len(group.l)
                /\ group.l[i].t # "None"
                /\ type_encodings[i].t = "type"
                /\ ~instancecheck(u.heap, group.l[i], type_encodings[i].s)
      THEN Raising(u, "TypeError")
      ELSE Return(Returning(u), ValList(group.l))

\* bytes.decode("utf-8"): the code points, None for a UnicodeDecodeError.
RECURSIVE decode_utf8(_)
decode_utf8(data) ==
  IF data = << >> THEN << >>
  ELSE LET first == data[1]
           size == IF first < 128 THEN 1
                   ELSE IF 194 <= first /\ first <= 223 THEN 2
                   ELSE IF 224 <= first /\ first <= 239 THEN 3
                   ELSE IF 240 <= first /\ first <= 244 THEN 4
                   ELSE 0
           continues(i) == i <= Len(data) /\ 128 <= data[i] /\ data[i] <= 191
           valid == /\ size > 0
                    /\ \A i \in 2..size : continues(i)
                    /\ first = 224 => data[2] >= 160
                    /\ first = 237 => data[2] <= 159
                    /\ first = 240 => data[2] >= 144
                    /\ first = 244 => data[2] <= 143
           code_point ==
             IF size = 1 THEN first
             ELSE IF size = 2 THEN (first - 192) * 64 + (data[2] - 128)
             ELSE IF size = 3
             THEN (first - 224) * 4096 + (data[2] - 128) * 64 + (data[3] - 128)
             ELSE (first - 240) * 262144 + (data[2] - 128) * 4096 + (data[3] - 128) * 64
                    + (data[4] - 128)
       IN  IF ~valid THEN None
           ELSE LET rest == decode_utf8(SubSeq(data, size + 1, Len(data)))
                IN  IF rest = None THEN None ELSE << code_point >> \o rest

\* init_from_unarchiver with the call of the next hook, or at its end: the hook
\* is called with the class_version, which it tests first.
InitStep(u) ==
  LET call == u.calls[Len(u.calls)]
      self == call.values[1]
      hooks == Tail(call.values)
  IN  IF hooks = << >>
      THEN IF call.cls # "ok" THEN Raising(u, call.cls) ELSE Returning(u)
      ELSE LET called ==
                 [Replacing(u, [call EXCEPT !.values = << self >> \o Tail(hooks)])
                    EXCEPT !.heap[self.n].hooks = Append(@, Head(hooks))]
           IN  IF ~IsImplemented(Head(hooks).s, Head(hooks).n)
               THEN Raising(called, "ValueError")
               ELSE Calling(called,
                            Call("_init_from_unarchiver_", << >>, << >>, << self >>,
                                 Head(hooks).n, Head(hooks).s, ""))

\* The hook of a call goes on to decode with calls, and then to its part next.
HookDecoding(u, next, calls) ==
  [Replacing(u, [u.calls[Len(u.calls)] EXCEPT !.cls = next]) EXCEPT !.calls = @ \o calls]

\* NSString._init_from_unarchiver_ after its test of class_version.
NSStringHook(u, call) ==
  LET value == call.values[Len(call.values)]
  IN  IF call.cls = "" THEN HookDecoding(u, "value", ValueOfType(Bytes(<< "+" >>)))
      ELSE IF value.t # "bytes" THEN Raising(u, "AttributeError")
      ELSE IF decode_utf8(value.s) = None THEN Raising(u, "UnicodeDecodeError")
      ELSE Returning([u EXCEPT !.heap[call.values[1].n].contents =
                                  << Val("str", 0, decode_utf8(value.s), << >>, << >>) >>])

\* List._init_from_unarchiver_ after its test of class_version, which is in n.
ListHook(u, call) ==
  LET value == call.values[Len(call.values)]
      count == IF call.cls = "counts" THEN value.l[2].n ELSE value.n
  IN  IF call.cls = ""
      THEN IF call.n = 0
           THEN HookDecoding(u, "counts",
                             << ValuesOfTypesCall(<< ValBytes(Bytes(<< "i" >>)),
                                                     ValBytes(Bytes(<< "i" >>)) >>),
                                Waiting("decode_typed_values_begin") >>)
           ELSE HookDecoding(u, "count", ValueOfType(Bytes(<< "i" >>)))
      ELSE IF call.cls = "elements"
      THEN Returning([u EXCEPT !.heap[call.values[1].n].contents = << ValList(value.l) >>])
      ELSE IF count < 0 THEN Raising(u, "ValueError")
      ELSE IF call.cls = "count" /\ ~(count > 0)
      THEN Returning([u EXCEPT !.heap[call.values[1].n].contents = << ValList(<< >>) >>])
      ELSE HookDecoding(u, "elements",
                        ValueOfType(build_array_encoding(count, Bytes(<< "@" >>))))

\* NSClassSwapper._init_from_unarchiver_ after its test of class_version: the
\* attributes are class_name, template_class and template.
NSClassSwapperHook(u, call) ==
  LET values == call.values[Len(call.values)].l
      class_name == values[1]
      template_class == values[2]
      heap == instantiate_archived_class(u.heap, template_class.n)
      template == Len(heap)
      superclass == lookup_archived_class(u.heap, template_class.n)
      assigned ==
        [u EXCEPT !.heap =
           [heap EXCEPT ![call.values[1].n].contents =
              << u.heap[class_name.n].contents[1], template_class,
                 Val(heap[template].k, template, << >>, << >>, << >>) >>]]
  IN  IF call.cls = ""
      THEN HookDecoding(u, "class_name",
                        << ValuesOfTypesCall(<< ValType(NSString),
                                                ValBytes(Bytes(<< "#" >>)) >>),
                           Waiting("decode_typed_values_begin") >>)
      ELSE IF call.cls = "template" THEN Returning(u)
      ELSE IF class_name.t # "KnownArchivedObject" THEN Raising(u, "AttributeError")
      ELSE IF u.heap[class_name.n].contents = << >> THEN Raising(u, "AttributeError")
      ELSE IF known_obj(heap, template) = 0 THEN Returning(assigned)
      ELSE InitFromUnarchiver(Replacing(assigned, [call EXCEPT !.cls = "template"]),
                              known_obj(heap, template), superclass)

\* The hook _init_from_unarchiver_ of the innermost call once its test of
\* class_version has passed or what it decodes has been returned to it, up to
\* the next event it asks for or to its end.
HookStep(u) ==
  LET call == u.calls[Len(u.calls)]
  IN  IF call.name = NSString THEN NSStringHook(u, call)
      ELSE IF call.name = List THEN ListHook(u, call)
      ELSE IF call.name = NSClassSwapper THEN NSClassSwapperHook(u, call)
      ELSE Returning(u)

\* What the Unarchiver does without taking an event: decode_values_of_types
\* compares what decode_typed_values returned, init_from_unarchiver calls the
\* hooks, a hook runs.
RECURSIVE Settle(_)
Settle(u) ==
  IF u.calls = << >> THEN u
  ELSE IF u.calls[Len(u.calls)].k = "decode_values_of_types_check"
  THEN Settle(ValuesOfTypes(u))
  ELSE IF u.calls[Len(u.calls)].k = "init_from_unarchiver" THEN Settle(InitStep(u))
  ELSE IF u.calls[Len(u.calls)].k = "_init_from_unarchiver_" THEN Settle(HookStep(u))
  ELSE u

\* A group begun with its first type encoding given an entry of the
\* shared_object_table.
TypedValuesBegunShared(u, begin) ==
  IF begin.t # "BeginTypedValues" THEN Raising(u, "ValueError")
  ELSE Calling(Calling([u EXCEPT !.shared_object_table =
                                    Append(@, Shared("C string", ValBytes(begin.l[1])))],
                       Call("decode_typed_values", << >>, begin.l, << >>, 0, << >>, "")),
               AnyUntypedValue(begin.l[1]))

\* decode_typed_values once it has its begin event, up to the next event it
\* asks for.
TypedValuesBegun(u, begin) ==
  IF begin.t # "BeginTypedValues" THEN Raising(u, "ValueError")
  ELSE Calling(Calling(u, Call("decode_typed_values", << >>, begin.l, << >>, 0, << >>, "")),
               AnyUntypedValue(begin.l[1]))

\* The end of a class chain in decode_any_untyped_value: the new classes are
\* constructed and appended to the shared_object_table.
ClassChainEnd(u, single_classes, next_superclass) ==
  Return(Returning([u EXCEPT
                      !.heap = NewClasses(u.heap, single_classes, next_superclass),
                      !.shared_object_table = @ \o ClassEntries(u.heap, single_classes)]),
         ValClass(Len(u.heap) + Len(single_classes)))

\* The loop over the superclass chain in decode_any_untyped_value, given its
\* next_class_event.
ClassChain(u, single_classes, next_class_event) ==
  IF next_class_event.t = "None" THEN ClassChainEnd(u, single_classes, 0)
  ELSE IF next_class_event.t = "ObjectReference"
  THEN LET found == lookup_reference(u.shared_object_table, next_class_event)
       IN  IF found.st # "ok" THEN Raising([u EXCEPT !.lookup = found], found.st)
           ELSE ClassChainEnd([u EXCEPT !.lookup = found], single_classes, found.obj.n)
  ELSE IF next_class_event.t # "SingleClass" THEN Raising(u, "ValueError")
  ELSE Replacing(u, Call("class_chain", << >>, << >>,
                         Append(single_classes, ValOfEvent(next_class_event)),
                         0, << >>, ""))

\* The BeginObject branch of decode_any_untyped_value up to its call of
\* decode_any_untyped_value(b"#").
ObjectBegun(u) ==
  LET placeholder_index == Len(u.shared_object_table)
  IN  Calling(Replacing([u EXCEPT !.shared_object_table =
                                     Append(@, Shared("object", ValNone))],
                        Call("object_class", << >>, << >>, << >>,
                             placeholder_index, << >>, "")),
              AnyUntypedValue(Bytes(<< "#" >>)))

\* The BeginArray branch of decode_any_untyped_value.
ArrayBegun(u, expected_encoding, first) ==
  LET parsed == parse_array_encoding(expected_encoding)
  IN  IF ~parsed.ok THEN Raising(u, "ValueError")
      ELSE IF first.n = 0
      THEN Replacing(u, Call("array_end", parsed.element, << >>, << >>, 0, << >>, ""))
      ELSE Calling(Replacing(u, Call("array", parsed.element, << >>, << >>,
                                     first.n, << >>, "")),
                   AnyUntypedValue(parsed.element))

\* The fields a struct is decoded with.
StructFieldsBegun(u, first, python_struct_class, expected_field_encodings) ==
  IF expected_field_encodings = << >>
  THEN Replacing(u, Call("struct_end", << >>, << >>, << >>, 0, first.s, python_struct_class))
  ELSE Calling(Replacing(u, Call("struct", << >>, Tail(expected_field_encodings), << >>,
                                 0, first.s, python_struct_class)),
               AnyUntypedValue(Head(expected_field_encodings)))

\* The BeginStruct branch of decode_any_untyped_value.
StructBegun(u, expected_encoding, first) ==
  LET python_struct_class == struct_classes_by_encoding(expected_encoding)
      parsed == parse_struct_encoding(expected_encoding)
  IN  IF python_struct_class # ""
      THEN StructFieldsBegun(u, first, python_struct_class,
                             field_encodings(python_struct_class))
      ELSE IF ~parsed.ok THEN Raising(u, "ValueError")
      ELSE StructFieldsBegun(u, first, "", parsed.fields)

\* decode_any_untyped_value given its first event.
AnyUntypedValueBegun(u, expected_encoding, first) ==
  IF first.t \in { "None", "int", "bool", "float", "bytes" }
  THEN Return(Returning(u), ValOfEvent(first))
  ELSE IF first.t = "ObjectReference"
  THEN LET found == lookup_reference(u.shared_object_table, first)
       IN  IF found.st # "ok" THEN Raising([u EXCEPT !.lookup = found], found.st)
           ELSE Return(Returning([u EXCEPT !.lookup = found]), found.obj)
  ELSE IF first.t = "CString"
  THEN Return(Returning([u EXCEPT !.shared_object_table =
                                     Append(@, Shared("C string", ValBytes(first.s)))]),
              ValBytes(first.s))
  ELSE IF first.t \in { "Atom", "Selector" } THEN Return(Returning(u), ValBytes(first.s))
  ELSE IF first.t = "SingleClass"
  THEN Replacing(u, Call("class_chain", << >>, << >>, << ValOfEvent(first) >>, 0, << >>, ""))
  ELSE IF first.t = "BeginObject" THEN ObjectBegun(u)
  ELSE IF first.t = "ByteArray" THEN Return(Returning(u), ArrayOfBytes(first.s))
  ELSE IF first.t = "BeginArray" THEN ArrayBegun(u, expected_encoding, first)
  ELSE IF first.t = "BeginStruct" THEN StructBegun(u, expected_encoding, first)
  ELSE Raising(u, "ValueError")

\* The value decode_typed_values returns.
TypedValues(encodings, values) ==
  IF Len(encodings) = 1 THEN TypedValue(encodings[1], values[1])
  ELSE TypedGroup(encodings, values)

\* next(self.reader) returned next_event to the innermost call of u, which runs
\* up to the next event it asks for.
Handle(u, next_event) ==
  LET call == u.calls[Len(u.calls)]
  IN  IF call.k = "decode_all" THEN TypedValuesBegun(u, next_event)
      ELSE IF call.k = "decode_typed_values_begin"
      THEN TypedValuesBegun(Returning(u), next_event)
      ELSE IF call.k = "decode_typed_values_end"
      THEN IF next_event.t # "EndTypedValues" THEN Raising(u, "ValueError")
           ELSE Return(Returning(u), TypedValues(call.encodings, call.values))
      ELSE IF call.k = "decode_any_untyped_value"
      THEN AnyUntypedValueBegun(u, call.expected, next_event)
      ELSE IF call.k = "class_chain" THEN ClassChain(u, call.values, next_event)
      ELSE IF call.k = "object_end"
      THEN IF next_event.t = "EndObject"
           THEN Return(Returning(u), call.values[1])
           ELSE IF allows_extra_data(u.heap, call.values[1].n)
           THEN TypedValuesBegun(u, next_event)
           ELSE Raising(u, "ValueError")
      ELSE IF call.k = "array_end"
      THEN IF next_event.t # "EndArray" THEN Raising(u, "ValueError")
           ELSE Return(Returning(u), ArrayOfValues(call.values))
      ELSE IF next_event.t # "EndStruct" THEN Raising(u, "ValueError")
      ELSE IF call.cls = "" THEN Return(Returning(u), GenericStruct(call.name, call.values))
      ELSE Return(Returning(u), KnownStruct(call.cls, call.values))

\* next(self.reader) raised st in the innermost call of u: decode_all takes
\* StopIteration as the end of the contents, everything else propagates.
HandleRaise(u, st) ==
  IF st = "StopIteration" /\ u.calls[Len(u.calls)].k = "decode_all"
  THEN Return(Returning(u), ValList(u.calls[Len(u.calls)].values))
  ELSE Raising(u, st)

\* The calls a method of the Unarchiver makes up to its first next(self.reader).
Begin(operation) ==
  IF operation.name = "decode_all" THEN << Waiting("decode_all") >>
  ELSE IF operation.name = "decode_single_root"
  THEN << Waiting("decode_single_root"), Waiting("decode_all") >>
  ELSE IF operation.name = "decode_typed_values"
  THEN << Waiting("decode_typed_values_begin") >>
  ELSE IF operation.name = "decode_data_object"
  THEN << Waiting("decode_data_object") >> \o ValueOfType(Bytes(<< "i" >>))
  ELSE << Waiting("decode_value_of_type"),
          ValuesOfTypesCall(<< ValBytes(operation.type_encoding) >>),
          Waiting("decode_typed_values_begin") >>

\* ------------------------------------------------- encodings to compare

\* The nesting depth of the type encodings compared.
MaxDepth == 2

\* The ways a struct name is written in an actual encoding: as expected, as ?,
\* left out together with its =, or empty before the =.
ActualNames(expected_name) == { expected_name, Bytes(<< "?" >>), None, << >> }

\* An expected type encoding and an actual one, with how names were replaced.
Encodings(expected, actual, replaced) ==
  [expected |-> expected, actual |-> actual, replaced |-> replaced]

NoEncodings == Encodings(<< >>, << >>, { })

\* How the name expected_name was replaced by actual_name.
Replaced(expected_name, actual_name) ==
  IF actual_name = expected_name THEN { }
  ELSE IF actual_name = None THEN { "omitted" }
  ELSE IF actual_name = << >> THEN { "empty" }
  ELSE { "?" }

\* The pairs of type encodings up to a nesting depth, the actual one differing
\* from the expected one only in its struct names: built with
\* build_struct_encoding and build_array_encoding around the pairs one level
\* less deep.
RECURSIVE EncodingPairs(_)
EncodingPairs(depth) ==
  IF depth = 0
  THEN { Encodings(Bytes(<< "f" >>), Bytes(<< "f" >>), { }),
         Encodings(Bytes(<< "@" >>), Bytes(<< "@" >>), { }) }
  ELSE LET inner == EncodingPairs(depth - 1)
           expected_name == Bytes(<< "P" >>)
       IN  inner
           \cup { Encodings(build_struct_encoding(expected_name, << e.expected >>),
                            build_struct_encoding(actual_name, << e.actual >>),
                            e.replaced \cup Replaced(expected_name, actual_name)) :
                    e \in inner, actual_name \in ActualNames(expected_name) }
           \cup { Encodings(build_struct_encoding(expected_name,
                                                  << e.expected, Bytes(<< "i" >>) >>),
                            build_struct_encoding(actual_name,
                                                  << e.actual, Bytes(<< "i" >>) >>),
                            e.replaced \cup Replaced(expected_name, actual_name)) :
                    e \in inner, actual_name \in ActualNames(expected_name) }
           \cup { Encodings(build_array_encoding(2, e.expected),
                            build_array_encoding(2, e.actual), e.replaced) :
                    e \in inner }

\* ------------------------------------------------------------- the state

\* The type encodings a caller expects in decode_value_of_type.
ExpectedEncodings == { NSPointEncoding, Bytes(<< "@" >>) }

\* A call of a method of the Unarchiver.
Operation(name, type_encoding) == [name |-> name, type_encoding |-> type_encoding]

Operations ==
  { Operation(name, << >>) :
      name \in { "decode_all", "decode_single_root", "decode_typed_values" } }
  \cup { Operation("decode_value_of_type", type_encoding) :
           type_encoding \in ExpectedEncodings }

VARIABLES
  constructed,          \* "no", "yes", or "raised" when TypedStreamReader() raised
  header,               \* the version, length and signature bytes _read_header read
  reader,               \* the raw stream and the attributes of the TypedStreamReader
  generators,           \* the suspended generators of _events_iterator, outermost first
  event,                \* what the last next(reader) returned
  raised,               \* what the last call of the caller raised, "" if nothing
  entered,              \* the generators that were suspended when the last next() began
  numbered,             \* the types of the events dump_typedstream gives a number, in order
  groups,               \* the number of encodings of each top-level group begun
  unmatched,            \* the Begin events the caller has seen no End event for, in order
  operation,            \* the method of the Unarchiver called last
  calls,                \* the suspended calls of the Unarchiver, outermost first
  shared_object_table,  \* Unarchiver.shared_object_table
  heap,                 \* the Class objects and archived objects constructed
  returned,             \* what the last method of the Unarchiver returned
  lookup,               \* the last _lookup_reference of the last step
  encodings,            \* an expected type encoding and an actual one
  matches,              \* what encoding_matches_expected gave for them, "" before
  close_reader,         \* Unarchiver._close_reader
  closes                \* the number of calls of TypedStreamReader.close so far

readerVars ==
  << constructed, header, reader, generators, event, entered, numbered, groups, unmatched >>

unarchiverVars == << operation, calls, shared_object_table, heap, returned, lookup >>

encodingVars == << encodings, matches >>

closeVars == << close_reader, closes >>

vars == << readerVars, raised, unarchiverVars, encodingVars, closeVars >>

\* A raw stream not opened yet, and an Unarchiver that has decoded nothing.
Init ==
  /\ constructed = "no"
  /\ header = << >>
  /\ \E stream \in Streams : reader = Context(stream, "", << >>, << >>, << >>)
  /\ generators = << >>
  /\ event = NoEvent
  /\ raised = ""
  /\ entered = << >>
  /\ numbered = << >>
  /\ groups = << >>
  /\ unmatched = << >>
  /\ close_reader = TRUE
  /\ closes = 0
  /\ operation = Operation("", << >>)
  /\ calls = << >>
  /\ shared_object_table = << >>
  /\ heap = << >>
  /\ returned = ValNone
  /\ lookup = NoLookup
  /\ encodings = NoEncodings
  /\ matches = ""

\* A raw stream of streams not opened yet.
InitOf(streams) ==
  /\ constructed = "no"
  /\ header = << >>
  /\ \E stream \in streams : reader = Context(stream, "", << >>, << >>, << >>)
  /\ generators = << >>
  /\ event = NoEvent
  /\ raised = ""
  /\ entered = << >>
  /\ numbered = << >>
  /\ groups = << >>
  /\ unmatched = << >>
  /\ close_reader = TRUE
  /\ closes = 0
  /\ operation = Operation("", << >>)
  /\ calls = << >>
  /\ shared_object_table = << >>
  /\ heap = << >>
  /\ returned = ValNone
  /\ lookup = NoLookup
  /\ encodings = NoEncodings
  /\ matches = ""

\* A reader that closes its raw stream whether it owns it or not.
close_always(c) == [c EXCEPT !.closed = TRUE]

\* TypedStreamReader.close: closing a closed stream again changes nothing.
close(c) == IF c.close_stream THEN [c EXCEPT !.closed = TRUE] ELSE c

\* TypedStreamReader.__init__, which closes the reader when the header raises.
Construct ==
  /\ constructed = "no"
  /\ \E r \in ReadHeader(reader) :
       /\ constructed' = IF r.st = "ok" THEN "yes" ELSE "raised"
       /\ header' = r.v
       /\ reader' = IF r.st = "ok" THEN r.c ELSE close(r.c)
       /\ generators' = IF r.st = "ok" THEN << Frame("all", << >>, 0) >> ELSE << >>
       /\ raised' = IF r.st = "ok" THEN "" ELSE r.st
       /\ closes' = IF r.st = "ok" THEN closes ELSE closes + 1
  /\ UNCHANGED << event, entered, numbered, groups, unmatched, unarchiverVars, encodingVars,
                  close_reader >>

\* What next(reader) can give: after the generators have returned or raised it
\* raises StopIteration.
NextOutcomes ==
  IF generators = << >>
  THEN { [st |-> "StopIteration", ev |-> NoEvent, c |-> reader, stack |-> << >>] }
  ELSE Resume(generators, [reader EXCEPT !.short = FALSE])

\* The number dump_typedstream prints with an event is its place in numbered.
IsNumbered(ev) == ev.t \in { "CString", "SingleClass", "BeginObject" }

\* The event type that begins what an event of type end_type ends.
BeginOf(end_type) ==
  CASE end_type = "EndTypedValues" -> "BeginTypedValues"
    [] end_type = "EndObject" -> "BeginObject"
    [] end_type = "EndArray" -> "BeginArray"
    [] end_type = "EndStruct" -> "BeginStruct"
    [] OTHER -> ""

\* What a caller that matches each End event with the last Begin event not yet
\* matched has left after the event ev: an End event that does not match the
\* last Begin event stays unmatched itself.
Matched(open, ev) ==
  IF ev.t \in { "BeginTypedValues", "BeginObject", "BeginArray", "BeginStruct" }
  THEN Append(open, ev.t)
  ELSE IF BeginOf(ev.t) = "" THEN open
  ELSE IF open # << >> /\ open[Len(open)] = BeginOf(ev.t)
  THEN SubSeq(open, 1, Len(open) - 1)
  ELSE Append(open, ev.t)

\* TypedStreamReader.__next__ with outcome r.
ReaderNext(r) ==
  /\ reader' = r.c
  /\ generators' = r.stack
  /\ event' = r.ev
  /\ entered' = generators
  /\ numbered' = IF r.st = "ok" /\ IsNumbered(r.ev) THEN Append(numbered, r.ev.t)
                 ELSE numbered
  /\ groups' = IF r.st = "ok" /\ Len(generators) = 1 THEN Append(groups, Len(r.ev.l))
               ELSE groups
  /\ unmatched' = IF r.st = "ok" THEN Matched(unmatched, r.ev) ELSE unmatched
  /\ UNCHANGED << constructed, header, closeVars >>

\* The caller iterates the reader: one next(reader).
Iterate ==
  /\ constructed = "yes"
  /\ \E r \in NextOutcomes :
       /\ ReaderNext(r)
       /\ raised' = IF r.st = "ok" THEN "" ELSE r.st
  /\ UNCHANGED << unarchiverVars, encodingVars >>

\* The caller calls the method op of the Unarchiver.
Begins(op) ==
  /\ constructed = "yes"
  /\ calls = << >>
  /\ operation' = op
  /\ calls' = Begin(op)
  /\ lookup' = NoLookup
  /\ UNCHANGED << readerVars, raised, shared_object_table, heap, returned, encodingVars,
                  closeVars >>

\* The caller calls a method of an Unarchiver that has raised nothing so far.
Decode ==
  /\ raised = ""
  /\ \E op \in Operations : Begins(op)

\* unarchive_from_data once the Unarchiver is constructed: decode_single_root, and
\* nothing after it.
Unarchive ==
  /\ operation = Operation("", << >>)
  /\ Begins(Operation("decode_single_root", << >>))

\* The Unarchiver as a next(self.reader) finds it.
Unarchiver ==
  [calls |-> calls, shared_object_table |-> shared_object_table, heap |-> heap,
   raised |-> "", returned |-> returned, lookup |-> NoLookup]

\* The Unarchiver takes the next event from its reader and works up to the next
\* event it asks for, or to the end of the method called.
DecodeStep ==
  /\ calls # << >>
  /\ \E r \in NextOutcomes :
       \E resumed \in { IF r.st = "ok" THEN Handle(Unarchiver, r.ev)
                        ELSE HandleRaise(Unarchiver, r.st) } :
         \E after \in { Settle(resumed) } :
           /\ ReaderNext(r)
           /\ calls' = after.calls
           /\ shared_object_table' = after.shared_object_table
           /\ heap' = after.heap
           /\ raised' = after.raised
           /\ returned' = after.returned
           /\ lookup' = after.lookup
  /\ UNCHANGED << operation, encodingVars >>

\* A caller that reads the events itself.
NextReader == Construct \/ Iterate

SpecReader == Init /\ [][NextReader]_vars

\* A caller that keeps calling: the constructor, then next() until the
\* generators have returned or raised.
FairSpecReader == SpecReader /\ WF_vars(NextReader)

\* A caller that reads the events of a stream of primitive values.
InitPrimitives == InitOf(PrimitiveStreams)

SpecPrimitives == InitPrimitives /\ [][NextReader]_vars

\* A caller that reads the events of a stream of arrays.
InitArrays == InitOf(ArrayStreams)

SpecArrays == InitArrays /\ [][NextReader]_vars

\* A caller that reads the events of a stream of any family.
InitEvents == InitOf(Streams \cup PrimitiveStreams)

SpecEvents == InitEvents /\ [][NextReader]_vars

\* The names of the classes of a superclass chain read from a stream: registered
\* names, and the names a stream of the first family gives its classes.
ClassNames == archived_classes_by_name \cup ObjectStrings

\* The superclass chains have up to MaxChain classes.
MaxChain == 3

\* The Class objects of a superclass chain as decode_any_untyped_value constructs
\* them: the root class first, each next class having the one before it as its
\* superclass.
ClassChains ==
  UNION { { [i \in 1..length |-> Class(names[i], 0, i - 1)] :
              names \in [1..length -> ClassNames] } : length \in 1..MaxChain }

\* The Class objects decoded, and no object instantiated yet.
InitRegistry ==
  /\ constructed = "no"
  /\ header = << >>
  /\ reader = Context(Stream(0, { }, { }), "", << >>, << >>, << >>)
  /\ generators = << >>
  /\ event = NoEvent
  /\ raised = ""
  /\ entered = << >>
  /\ numbered = << >>
  /\ groups = << >>
  /\ unmatched = << >>
  /\ close_reader = TRUE
  /\ closes = 0
  /\ operation = Operation("", << >>)
  /\ calls = << >>
  /\ shared_object_table = << >>
  /\ heap \in ClassChains
  /\ returned = ValNone
  /\ lookup = NoLookup
  /\ encodings = NoEncodings
  /\ matches = ""

\* instantiate_archived_class(archived_class) for a Class of the heap: the tuple
\* returned holds the new object and the found archived class or None.
Instantiate ==
  /\ operation = Operation("", << >>)
  /\ \E archived_class \in DOMAIN heap :
       \E superclass \in { lookup_archived_class(heap, archived_class) } :
         \E instantiated \in { instantiate_archived_class(heap, archived_class) } :
           /\ operation' = Operation("instantiate_archived_class", << archived_class >>)
           /\ heap' = instantiated
           /\ returned' = ValList(<< Val(instantiated[Len(instantiated)].k, Len(instantiated),
                                         << >>, << >>, << >>),
                                     IF superclass = 0 THEN ValNone ELSE ValClass(superclass) >>)
  /\ UNCHANGED << readerVars, raised, calls, shared_object_table, lookup, encodingVars,
                  closeVars >>

SpecRegistry == InitRegistry /\ [][Instantiate]_vars

\* The head bytes given to _read_integer: the first and last of the tag range,
\* the tags, the first reference number and plain integers.
IntegerHeads ==
  { FIRST_TAG, TAG_INTEGER_2, TAG_INTEGER_4, TAG_FLOATING_POINT, TAG_NEW, TAG_NIL,
    LAST_TAG, FIRST_REFERENCE_NUMBER, -1, 0, 1, 127 }

\* The bytes left in the stream when _read_integer is called are up to
\* MaxIntegerBytes.
MaxIntegerBytes == 5

\* A reader constructed over a stream of either byte order, between two values.
InitInteger ==
  /\ constructed = "yes"
  /\ header = << >>
  /\ \E unread \in 0..MaxIntegerBytes, byte_order \in { "big", "little" } :
       reader = Context(Stream(unread, PrimitiveHeads, { }), byte_order,
                        << >>, << >>, << >>)
  /\ generators = << >>
  /\ event = NoEvent
  /\ raised = ""
  /\ entered = << >>
  /\ numbered = << >>
  /\ groups = << >>
  /\ unmatched = << >>
  /\ close_reader = TRUE
  /\ closes = 0
  /\ operation = Operation("", << >>)
  /\ calls = << >>
  /\ shared_object_table = << >>
  /\ heap = << >>
  /\ returned = ValNone
  /\ lookup = NoLookup
  /\ encodings = NoEncodings
  /\ matches = ""

\* _read_integer(head, signed=signed): event is the integer returned.
Integer ==
  /\ operation = Operation("", << >>)
  /\ \E head \in IntegerHeads \cup { NoHead }, signed \in BOOLEAN :
       \E r \in ReadInteger(reader, head, signed) :
         /\ operation' = Operation("_read_integer", << head, signed >>)
         /\ reader' = r.c
         /\ event' = IF r.st = "ok" THEN EvInt(r.v) ELSE NoEvent
         /\ raised' = IF r.st = "ok" THEN "" ELSE r.st
  /\ UNCHANGED << closeVars, constructed, header, generators, entered, numbered, groups, unmatched,
                  calls, shared_object_table, heap, returned, lookup, encodingVars >>

SpecInteger == InitInteger /\ [][Integer]_vars

\* A caller that decodes with an Unarchiver.
Next == Construct \/ Decode \/ DecodeStep

Spec == Init /\ [][Next]_vars

\* A caller that creates a reader on a raw stream with close=True, as from_data
\* and open do, or with close=False, and an Unarchiver on that reader with
\* close=True, as from_data, from_stream and open do, or with close=False.
MaxCloseBytes == 18

CloseStreams ==
  { Stream(unread, PrimitiveHeads, PrimitiveStrings) : unread \in 0..MaxCloseBytes }

InitClose ==
  /\ constructed = "no"
  /\ header = << >>
  /\ \E stream \in CloseStreams, owned \in BOOLEAN :
       reader = [Context(stream, "", << >>, << >>, << >>) EXCEPT !.close_stream = owned]
  /\ generators = << >>
  /\ event = NoEvent
  /\ raised = ""
  /\ entered = << >>
  /\ numbered = << >>
  /\ groups = << >>
  /\ unmatched = << >>
  /\ close_reader \in BOOLEAN
  /\ closes = 0
  /\ operation = Operation("", << >>)
  /\ calls = << >>
  /\ shared_object_table = << >>
  /\ heap = << >>
  /\ returned = ValNone
  /\ lookup = NoLookup
  /\ encodings = NoEncodings
  /\ matches = ""

\* The caller closes a reader a limited number of times.
MaxCloses == 2

\* The caller calls reader.close().
CloseReader ==
  /\ constructed = "yes"
  /\ closes < MaxCloses
  /\ reader' = close(reader)
  /\ closes' = closes + 1
  /\ UNCHANGED << constructed, header, generators, event, entered, numbered, groups,
                  unmatched, raised, unarchiverVars, encodingVars, close_reader >>

\* The caller calls Unarchiver.close() between two methods of the Unarchiver.
CloseUnarchiver ==
  /\ constructed = "yes"
  /\ calls = << >>
  /\ closes < MaxCloses
  /\ operation' = Operation("close", << >>)
  /\ reader' = IF close_reader THEN close(reader) ELSE reader
  /\ closes' = IF close_reader THEN closes + 1 ELSE closes
  /\ UNCHANGED << constructed, header, generators, event, entered, numbered, groups,
                  unmatched, raised, calls, shared_object_table, heap, returned, lookup,
                  encodingVars, close_reader >>

NextClose == Construct \/ Iterate \/ Unarchive \/ DecodeStep \/ CloseReader \/ CloseUnarchiver

SpecClose == InitClose /\ [][NextClose]_vars

\* A caller that decodes one data object with an Unarchiver.
InitData == InitOf(DataStreams)

DecodeData ==
  /\ operation = Operation("", << >>)
  /\ Begins(Operation("decode_data_object", << >>))

NextData == Construct \/ DecodeData \/ DecodeStep

SpecData == InitData /\ [][NextData]_vars

\* A caller that decodes a stream of C strings with an Unarchiver.
InitCStrings == InitOf(CStringStreams)

SpecCStrings == InitCStrings /\ [][Next]_vars

\* A caller that decodes a written stream of references with an Unarchiver.
InitReferences == InitOf(ReferenceStreams)

SpecReferences == InitReferences /\ [][Next]_vars

\* A caller that decodes a written stream of classes with an Unarchiver.
InitClasses == InitOf(ClassStreams)

SpecClasses == InitClasses /\ [][Next]_vars

\* A caller of unarchive_from_data.
NextUnarchive == Construct \/ Unarchive \/ DecodeStep

\* A caller of unarchive_from_data with a written stream of objects of
\* registered classes.
InitKnown == InitOf(KnownStreams)

SpecKnown == InitKnown /\ [][NextUnarchive]_vars

SpecUnarchive == Init /\ [][NextUnarchive]_vars

\* A caller that compares two type encodings.
InitEncodings ==
  /\ constructed = "no"
  /\ header = << >>
  /\ reader = Context(Stream(0, { }, { }), "", << >>, << >>, << >>)
  /\ generators = << >>
  /\ event = NoEvent
  /\ raised = ""
  /\ entered = << >>
  /\ numbered = << >>
  /\ groups = << >>
  /\ unmatched = << >>
  /\ close_reader = TRUE
  /\ closes = 0
  /\ operation = Operation("", << >>)
  /\ calls = << >>
  /\ shared_object_table = << >>
  /\ heap = << >>
  /\ returned = ValNone
  /\ lookup = NoLookup
  /\ encodings \in EncodingPairs(MaxDepth)
  /\ matches = ""

\* encoding_matches_expected(actual_encoding, expected_encoding).
Match ==
  /\ matches = ""
  /\ matches' = encoding_matches_expected(encodings.actual, encodings.expected)
  /\ UNCHANGED << readerVars, raised, unarchiverVars, encodings, closeVars >>

SpecEncodings == InitEncodings /\ [][Match]_vars

\* A caller that splits an encoding string of up to MaxSplitLength characters
\* with list(split_encodings(e)) and joins the pieces again.
MaxSplitLength == 5

SplitChars == { Ord("i"), Ord("["), Ord("]"), Ord("{"), Ord("}") }

SplitStrings == UNION { [1..n -> SplitChars] : n \in 0..MaxSplitLength }

InitSplit ==
  /\ constructed = "no"
  /\ header = << >>
  /\ reader = Context(Stream(0, { }, { }), "", << >>, << >>, << >>)
  /\ generators = << >>
  /\ event = NoEvent
  /\ raised = ""
  /\ entered = << >>
  /\ numbered = << >>
  /\ groups = << >>
  /\ unmatched = << >>
  /\ close_reader = TRUE
  /\ closes = 0
  /\ operation = Operation("", << >>)
  /\ calls = << >>
  /\ shared_object_table = << >>
  /\ heap = << >>
  /\ returned = ValNone
  /\ lookup = NoLookup
  /\ \E e \in SplitStrings : encodings = Encodings(<< >>, e, { })
  /\ matches = ""

\* list(split_encodings(encodings.actual)).
Split ==
  /\ operation = Operation("", << >>)
  /\ \E pieces \in { split_encodings(encodings.actual) } :
       /\ operation' = Operation("split_encodings", encodings.actual)
       /\ raised' = IF pieces.ok THEN "" ELSE "ValueError"
       /\ returned' = IF pieces.ok
                      THEN ValList([i \in 1..Len(pieces.l) |-> ValBytes(pieces.l[i])])
                      ELSE returned
  /\ UNCHANGED << readerVars, calls, shared_object_table, heap, lookup, encodingVars,
                  closeVars >>

\* join_encodings of the pieces split_encodings returned, kept as
\* encodings.expected.
Join ==
  /\ operation.name = "split_encodings"
  /\ raised = ""
  /\ operation' = Operation("join_encodings", operation.type_encoding)
  /\ encodings' = [encodings EXCEPT
                     !.expected = join_encodings([i \in 1..Len(returned.l) |-> returned.l[i].s])]
  /\ UNCHANGED << readerVars, raised, calls, shared_object_table, heap, returned, lookup,
                  matches, closeVars >>

NextSplit == Split \/ Join

SpecSplit == InitSplit /\ [][NextSplit]_vars

\* ------------------------------------------------------------ properties

\* The signature among the header bytes read.
Signature == SubSeq(header, 3, Len(header))

\* C10 (header validation): constructing a reader succeeds only if the first
\* byte is 4, the second byte is 11 and the 11 signature bytes are typedstream,
\* the byte order then being big, or streamtyped, the byte order then being
\* little; streamer version 3 and every other version are rejected; and when
\* construction is rejected it raises and no event is ever produced.
C10_HeaderValidation ==
  /\ constructed = "yes" =>
       /\ Len(header) = 13
       /\ header[1] = 4
       /\ header[2] = 11
       /\ \/ Signature = SIGNATURE_BIG_ENDIAN /\ reader.byte_order = "big"
          \/ Signature = SIGNATURE_LITTLE_ENDIAN /\ reader.byte_order = "little"
  /\ constructed # "no" /\ Len(header) >= 1 /\ header[1] # 4 => constructed = "raised"
  /\ constructed = "raised" =>
       /\ raised = "InvalidTypedStreamError"
       /\ generators = << >>
       /\ event = NoEvent
       /\ numbered = << >>
       /\ groups = << >>

\* A reader constructed over a little-endian stream has produced an event.
C10_Witness ==
  /\ constructed = "yes"
  /\ Signature = SIGNATURE_LITTLE_ENDIAN
  /\ event # NoEvent

\* C3 (shared-string idempotence): the shared_string_table is append-only; the
\* N-th shared string read literally is entry N of it and stays so; and a
\* shared-string reference whose decoded index is N has returned exactly the
\* bytes of entry N.
C3_SharedStringIdempotence ==
  /\ [](/\ reader.shared_string_table = reader.literals
        /\ reader.reference # << >> /\ reader.reference[1] >= 0 =>
             /\ reader.reference[1] < Len(reader.literals)
             /\ reader.reference[2] = reader.literals[reader.reference[1] + 1])
  /\ [][/\ Len(reader'.shared_string_table) >= Len(reader.shared_string_table)
        /\ SubSeq(reader'.shared_string_table, 1, Len(reader.shared_string_table))
             = reader.shared_string_table]_vars

\* A reference to the first shared string was resolved after a second, different
\* string had been stored.
C3_Witness ==
  /\ Len(reader.shared_string_table) >= 2
  /\ reader.shared_string_table[1] # reader.shared_string_table[2]
  /\ reader.reference # << >>
  /\ reader.reference[1] = 0

\* The reader is between two top-level groups of typed values.
AtGroupBoundary == Len(generators) = 1

\* C4 (termination and clean end of stream): iterating the events of a reader
\* that was constructed terminates; an iteration ends normally exactly when the
\* bytes have run out at a top-level group boundary, and then every byte has
\* been consumed; when a read comes up short anywhere else, inside a group, the
\* reader raises InvalidTypedStreamError.
C4_CleanEndOfStream ==
  /\ constructed = "yes" ~> generators = << >>
  /\ [][generators # << >> =>
          /\ raised' = "StopIteration" <=> AtGroupBoundary /\ reader.unread = 0
          /\ raised' = "StopIteration" => reader'.unread = 0
          /\ reader'.short /\ ~(AtGroupBoundary /\ reader.unread = 0) =>
               raised' = "InvalidTypedStreamError"]_vars

\* An iteration has ended normally after two groups, the second holding an
\* object.
C4_Witness ==
  /\ raised = "StopIteration"
  /\ entered # << >>
  /\ Len(groups) = 2
  /\ "BeginObject" \in { numbered[i] : i \in 1..Len(numbered) }

\* C7 (encoding tolerance): whenever the actual encoding differs from the
\* expected one only by struct names replaced by ? or by an empty name, at any
\* depth, encoding_matches_expected is true.
C7_EncodingTolerance == matches # "" => matches = "true"

\* The innermost suspended call of the Unarchiver.
Top == calls[Len(calls)]

\* The type an entry of shared_object_table has for an event dump_typedstream
\* numbers.
ReferenceType(t) ==
  IF t = "CString" THEN "C string" ELSE IF t = "SingleClass" THEN "class" ELSE "object"

\* The SingleClass events a class chain in progress has read: their classes are
\* appended when the chain ends.
Pending == IF calls # << >> /\ Top.k = "class_chain" THEN Len(Top.values) ELSE 0

\* The entry of shared_object_table for an object whose class is not read yet.
Placeholder == Shared("object", ValNone)

\* The slots follow the numbered events: entry k has the type of the k-th
\* numbered event, and an Unarchiver that has raised nothing has an entry for
\* every numbered event but those of a class chain in progress.
SlotsFollowEvents ==
  /\ Len(shared_object_table) <= Len(numbered)
  /\ \A k \in 1..Len(shared_object_table) :
       /\ shared_object_table[k].type = ReferenceType(numbered[k])
       /\ shared_object_table[k].type = "C string" => shared_object_table[k].obj.t = "bytes"
       /\ shared_object_table[k].type = "class" =>
            /\ shared_object_table[k].obj.t = "Class"
            /\ heap[shared_object_table[k].obj.n].k = "Class"
  /\ raised = "" => Len(shared_object_table) + Pending = Len(numbered)

\* A step that takes a CString or a BeginObject appends its entry at the number
\* of the event.
LiteralNumbered ==
  calls # << >> /\ raised' = "" =>
    /\ event'.t = "CString" =>
         /\ shared_object_table' =
              Append(shared_object_table, Shared("C string", ValBytes(event'.s)))
         /\ Len(shared_object_table') = Len(numbered')
    /\ event'.t = "BeginObject" =>
         /\ shared_object_table' = Append(shared_object_table, Placeholder)
         /\ Len(shared_object_table') = Len(numbered')

\* A step that ends a class chain appends its classes at the numbers of their
\* SingleClass events, each with the next as superclass; the object they are
\* read for has the first of them as class and a lower number than all of them.
ChainNumbered ==
  calls # << >> /\ raised' = "" /\ Top.k = "class_chain"
  /\ event'.t \in { "None", "ObjectReference" } =>
    LET single_classes == Top.values
        first == Len(shared_object_table)
        class(j) == heap'[shared_object_table'[first + j].obj.n]
    IN  /\ Len(shared_object_table') = first + Len(single_classes)
        /\ \A j \in 1..Len(single_classes) :
             /\ numbered[first + j] = "SingleClass"
             /\ shared_object_table'[first + j].type = "class"
             /\ class(j).name = single_classes[j].s
             /\ class(j).version = single_classes[j].n
             /\ class(j).superclass =
                  IF j < Len(single_classes) THEN shared_object_table'[first + j + 1].obj.n
                  ELSE IF event'.t = "None" THEN 0
                  ELSE lookup'.obj.n
        /\ Len(calls) >= 2 /\ calls[Len(calls) - 1].k = "object_class" =>
             LET placeholder_index == calls[Len(calls) - 1].n
                 obj == shared_object_table'[placeholder_index + 1]
             IN  /\ placeholder_index < first
                 /\ numbered[placeholder_index + 1] = "BeginObject"
                 /\ shared_object_table[placeholder_index + 1] = Placeholder
                 /\ obj.type = "object"
                 /\ heap'[obj.obj.n].clazz = shared_object_table'[first + 1].obj.n

\* C1: numbering determinism.  Entry k of shared_object_table belongs to the
\* k-th event among CString, SingleClass and BeginObject in the order the reader
\* gives them, with the type C string, class or object of that event (the number
\* dump_typedstream prints for it), and a literal object has a lower number than
\* every class read literally in its own class chain.
C1_NumberingDeterminism ==
  /\ []SlotsFollowEvents
  /\ [][LiteralNumbered /\ ChainNumbered]_vars

\* An Unarchiver that has returned an object whose contents hold a C string:
\* the object, its class and the C string are numbered in this order.
C1_Witness ==
  /\ calls = << >>
  /\ raised = ""
  /\ numbered = << "BeginObject", "SingleClass", "CString" >>
  /\ Len(shared_object_table) = 3
  /\ returned.t = "GenericArchivedObject"

\* C2: reference kind soundness.  _lookup_reference returns the object of an
\* entry only when the referenced type is the type of the entry; when they
\* differ it raises ValueError, returns nothing, and the shared_object_table
\* stays as it is.
C2_ReferenceKindSoundness ==
  [][calls # << >> /\ lookup'.st # "" =>
       /\ event'.t = "ObjectReference"
       /\ lookup'.referenced_type = event'.k
       /\ lookup'.number = event'.n
       /\ PyIndexOk(shared_object_table, lookup'.number) =>
            LET entry == PyIndex(shared_object_table, lookup'.number)
            IN  /\ lookup'.st = "ok" <=> entry.type = lookup'.referenced_type
                /\ lookup'.st = "ok" => lookup'.obj = entry.obj
                /\ lookup'.st # "ok" =>
                     /\ lookup'.st = "ValueError"
                     /\ lookup'.obj = ValNone
                     /\ raised' = "ValueError"
                     /\ calls' = << >>
                     /\ returned' = returned
                     /\ shared_object_table' = shared_object_table
                     /\ heap' = heap]_vars

\* A reference to an object was given where a class is stored, or the other way
\* round.
C2_Witness ==
  /\ lookup.st = "ValueError"
  /\ raised = "ValueError"
  /\ PyIndexOk(shared_object_table, lookup.number)
  /\ PyIndex(shared_object_table, lookup.number).type # lookup.referenced_type

\* decode_single_root has returned or raised.
SingleRootDone == operation.name = "decode_single_root" /\ calls = << >>

\* C5: single-root property.  decode_single_root returns the inner value when
\* the stream holds exactly one top-level group of typed values and the group
\* has exactly one encoding; with no group, with more than one group, or with a
\* single group of two or more values it raises ValueError.
C5_SingleRoot ==
  /\ [](SingleRootDone /\ raised = "" =>
          groups = << 1 >> /\ reader.unread = 0 /\ generators = << >>)
  /\ [][calls # << >> /\ calls' = << >> /\ generators' = << >>
        /\ raised' \in { "", "ValueError" } =>
          LET contents == Top.values
          IN  /\ Top.k = "decode_all"
              /\ Len(contents) = Len(groups)
              /\ \A i \in 1..Len(groups) : Len(contents[i].l) = groups[i]
              /\ raised' = "" <=> groups = << 1 >>
              /\ raised' = "" => returned' = contents[1].l[1]]_vars

\* decode_single_root has returned the object that is the only value of the
\* only group.
C5_Witness ==
  /\ SingleRootDone
  /\ raised = ""
  /\ groups = << 1 >>
  /\ returned.t = "GenericArchivedObject"
  /\ heap[returned.n].contents # << >>

\* C6: struct name tolerance.  decode_value_of_type, given the encoding of
\* NSPoint where the group in the stream has the encoding with ? as the struct
\* name, returns an NSPoint.
C6_StructNameTolerance ==
  operation = Operation("decode_value_of_type", NSPointEncoding)
  /\ calls = << >> /\ raised = "" =>
    returned.t = struct_classes_by_encoding(NSPointEncoding)

\* The calls that decode the contents of an object.
ObjectsBeingDecoded == { i \in 1..Len(calls) : calls[i].k = "object_end" }

\* C8: circular reference.  The entry of a literal object is overwritten with
\* the constructed object before its contents are decoded, so a reference to
\* it read in these contents gives this same object, nothing is decoded twice,
\* and decoding comes to an end.
C8_CircularReference ==
  /\ [](\A i \in 1..Len(calls) :
          /\ calls[i].k = "object_class" =>
               shared_object_table[calls[i].n + 1] = Placeholder
          /\ calls[i].k = "object_end" =>
               /\ shared_object_table[calls[i].n + 1] = Shared("object", calls[i].values[1])
               /\ heap[calls[i].values[1].n].k = calls[i].values[1].t)
  /\ [][\A i \in ObjectsBeingDecoded :
          event'.t = "ObjectReference" /\ event'.k = "object" /\ event'.n = calls[i].n =>
            /\ lookup'.st = "ok"
            /\ lookup'.obj = calls[i].values[1]
            /\ raised' = ""
            /\ calls'[Len(calls')].values[Len(calls'[Len(calls')].values)] = calls[i].values[1]
            /\ heap' = heap
            /\ shared_object_table' = shared_object_table]_vars
  /\ <>[][FALSE]_vars

\* The object with identity o holds itself in its contents.
HoldsItself(o) ==
  /\ heap[o].k = "GenericArchivedObject"
  /\ \E j \in 1..Len(heap[o].contents) :
       heap[o].contents[j] =
         TypedValue(Bytes(<< "@" >>), Val("GenericArchivedObject", o, << >>, << >>, << >>))

\* unarchive_from_data has returned an object that holds itself.
C8_Witness ==
  /\ SingleRootDone
  /\ raised = ""
  /\ returned.t = "GenericArchivedObject"
  /\ HoldsItself(returned.n)

\* C9: object backreference.  An entry that holds a C string, a Class or a
\* constructed object stays as it is, and so does every Class; a reference of
\* its type to it gives this very object.  An object whose class is given by
\* a reference has the Class of the entry as its class, and no new one.
C9_ObjectBackreference ==
  [][/\ Len(heap') >= Len(heap)
     /\ \A id \in 1..Len(heap) : heap[id].k = "Class" => heap'[id] = heap[id]
     /\ \A k \in 1..Len(shared_object_table) :
          shared_object_table[k] # Placeholder =>
            /\ k <= Len(shared_object_table')
            /\ shared_object_table'[k] = shared_object_table[k]
     /\ calls # << >> /\ lookup'.st = "ok" =>
          /\ lookup'.obj = PyIndex(shared_object_table, lookup'.number).obj
          /\ lookup'.obj = PyIndex(shared_object_table', lookup'.number).obj
     /\ calls # << >> /\ Len(calls) >= 2 /\ Top.k = "decode_any_untyped_value"
        /\ calls[Len(calls) - 1].k = "object_class"
        /\ event'.t = "ObjectReference" /\ raised' = "" =>
          /\ Len(heap') = Len(heap) + 1
          /\ heap'[Len(heap')].k = "GenericArchivedObject"
          /\ heap'[Len(heap')].clazz = PyIndex(shared_object_table, event'.n).obj.n
          /\ heap[heap'[Len(heap')].clazz].k = "Class"]_vars

\* Two objects share one Class, the only one constructed.
C9_Witness ==
  /\ \E o1, o2 \in 1..Len(heap) :
       /\ o1 # o2
       /\ heap[o1].k = "GenericArchivedObject"
       /\ heap[o2].k = "GenericArchivedObject"
       /\ heap[o1].clazz = heap[o2].clazz
  /\ Cardinality({ id \in 1..Len(heap) : heap[id].k = "Class" }) = 1
  /\ lookup.st = "ok"
  /\ lookup.referenced_type = "class"

\* The encoding of the value that next() reads when the suspended generators
\* are stack, empty when it reads none.
EncodingOf(stack) ==
  LET top == stack[Len(stack)]
  IN  IF stack = << >> \/ top.k \notin { "tv", "struct", "array" } \/ top.encs = << >>
      THEN << >>
      ELSE IF top.k = "array" /\ top.n = 0 THEN << >>
      ELSE Head(top.encs)

\* The encoding of the value the last next() read.
EncodingEntered == EncodingOf(entered)

\* C11 (single error kind): every structural fault the reader detects, a
\* malformed array or struct encoding among them, is reported as
\* InvalidTypedStreamError and as no other error kind.  The reader ends an
\* iteration with StopIteration; an IndexError comes from a reference to a shared
\* string never stored, which is not among the faults listed.
C11_SingleErrorKind ==
  raised \in { "", "StopIteration", "InvalidTypedStreamError", "IndexError" }

\* The last Begin event not matched yet, "" when there is none.
Innermost == IF unmatched = << >> THEN "" ELSE unmatched[Len(unmatched)]

\* An event of the class chain of an object: a class, or the nil or the
\* reference to a class that ends the chain.
IsClassChainEvent(ev) ==
  \/ ev.t \in { "SingleClass", "None" }
  \/ ev.t = "ObjectReference" /\ ev.k = "class"

\* C12 (event nesting): each End event closes the most recent unmatched Begin
\* event of the same kind, so that no End event is left unmatched, and nothing
\* is unmatched when the iteration ends normally; a literal object is emitted as
\* BeginObject, then the events of its class chain, then zero or more complete
\* groups of typed values, then EndObject.
C12_EventNesting ==
  /\ [](/\ \A i \in 1..Len(unmatched) : BeginOf(unmatched[i]) = ""
        /\ raised = "StopIteration" /\ entered # << >> => unmatched = << >>)
  /\ [][constructed = "yes" /\ raised' = "" /\ Innermost = "BeginObject" =>
          IF event.t \in { "BeginObject", "SingleClass" }
          THEN IsClassChainEvent(event') /\ unmatched' = unmatched
          ELSE event'.t \in { "BeginTypedValues", "EndObject" }]_vars

\* An object with a class has ended inside the second top-level group, which
\* has not ended yet.
C12_Witness ==
  /\ event = EndObject
  /\ unmatched = << "BeginTypedValues" >>
  /\ "SingleClass" \in { numbered[i] : i \in 1..Len(numbered) }
  /\ Len(groups) = 2

\* The classes from archived_class up its superclass chain, nearest first.
RECURSIVE Ancestry(_)
Ancestry(archived_class) ==
  IF archived_class = 0 THEN << >>
  ELSE << archived_class >> \o Ancestry(heap[archived_class].superclass)

\* A Python class is registered for the name of archived_class.
IsRegistered(archived_class) == heap[archived_class].name \in archived_classes_by_name

\* C13 (registry resolution): instantiate_archived_class on a wire class W
\* returns an instance of the registered class when the name of W is
\* registered; otherwise a GenericArchivedObject wrapping W whose super_object is
\* an instance of the class registered for the nearest registered ancestor of W,
\* paired with that ancestor; otherwise, when no class of the chain is
\* registered, a GenericArchivedObject with super_object None and no contents.
C13_RegistryResolution ==
  operation.name = "instantiate_archived_class" =>
    LET W == operation.type_encoding[1]
        obj == heap[returned.l[1].n]
        superclass == returned.l[2]
        chain == Ancestry(W)
        registered == { i \in 1..Len(chain) : IsRegistered(chain[i]) }
        nearest == chain[CHOOSE i \in registered : \A j \in registered : i <= j]
    IN  IF IsRegistered(W)
        THEN /\ obj = KnownArchivedObject(heap[W].name)
             /\ superclass = ValClass(W)
        ELSE IF registered # { }
        THEN /\ obj = GenericArchivedObject(W, obj.super_object, << >>)
             /\ obj.super_object \in DOMAIN heap
             /\ heap[obj.super_object] = KnownArchivedObject(heap[nearest].name)
             /\ superclass = ValClass(nearest)
        ELSE /\ obj = GenericArchivedObject(W, 0, << >>)
             /\ superclass = ValNone

\* An object of an unregistered class whose superclass is not registered either
\* and whose root class is has been instantiated.
C13_Witness ==
  /\ operation.name = "instantiate_archived_class"
  /\ operation.type_encoding = << 3 >>
  /\ ~IsRegistered(3)
  /\ ~IsRegistered(2)
  /\ IsRegistered(1)
  /\ heap[returned.l[1].n].k = "GenericArchivedObject"

\* C14 (booleans and chars): for the encoding B the reader consumes exactly one
\* byte and accepts only 0 and 1, every other byte raising
\* InvalidTypedStreamError; for the encodings c and C it consumes exactly one
\* byte and accepts every byte value as it is, those of the tag range included.
C14_LiteralBytes ==
  [][constructed = "yes" /\ reader.unread >= 1
       /\ EncodingOf(generators) \in { Bytes(<< "B" >>), Bytes(<< "c" >>), Bytes(<< "C" >>) } =>
         /\ reader'.unread = reader.unread - 1
         /\ Len(reader'.raw) = 1
         /\ EncodingOf(generators) = Bytes(<< "B" >>) =>
              IF reader'.raw[1] \in { 0, 1 }
              THEN raised' = "" /\ event' = EvBool(reader'.raw[1])
              ELSE raised' = "InvalidTypedStreamError"
         /\ EncodingOf(generators) = Bytes(<< "C" >>) =>
              raised' = "" /\ event' = EvInt(reader'.raw[1])
         /\ EncodingOf(generators) = Bytes(<< "c" >>) =>
              /\ raised' = ""
              /\ event' = EvInt(IF reader'.raw[1] >= 128 THEN reader'.raw[1] - 256
                                ELSE reader'.raw[1])]_vars

\* The byte of TAG_NEW was read as a signed char.
C14_Witness ==
  /\ EncodingEntered = Bytes(<< "c" >>)
  /\ reader.raw = << 256 + TAG_NEW >>
  /\ event = EvInt(TAG_NEW)
  /\ raised = ""

\* The bytes b hold a NUL byte.
HasNul(b) == \E i \in 1..Len(b) : b[i] = 0

\* C15 (C strings): a literal C string whose bytes hold a NUL byte raises
\* InvalidTypedStreamError; every literal C string that is accepted, its bytes
\* read literally or through a shared-string reference, appends exactly one
\* C string entry holding its bytes to the shared_object_table; the entry stays
\* as it is, and a later C string reference to it returns those bytes.
C15_CStrings ==
  /\ [](/\ event.t = "CString" => ~HasNul(event.s)
        /\ lookup.st = "ok" /\ lookup.referenced_type = "C string" =>
             /\ PyIndexOk(shared_object_table, lookup.number)
             /\ PyIndex(shared_object_table, lookup.number).type = "C string"
             /\ lookup.obj = PyIndex(shared_object_table, lookup.number).obj)
  /\ [][/\ /\ EncodingOf(generators) = Bytes(<< "*" >>)
            /\ Len(reader'.literals) > Len(reader.literals)
            /\ HasNul(reader'.literals[Len(reader'.literals)])
            => raised' = "InvalidTypedStreamError"
        /\ reader'.unread < reader.unread /\ event'.t = "CString" =>
             shared_object_table'
               = Append(shared_object_table, Shared("C string", ValBytes(event'.s)))
        /\ \A i \in 1..Len(shared_object_table) :
             shared_object_table[i].type = "C string" =>
               /\ i <= Len(shared_object_table')
               /\ shared_object_table'[i] = shared_object_table[i]]_vars

\* A reference to a C string whose bytes were read through a reference to a
\* shared string has returned those bytes.
C15_Witness ==
  /\ Len(shared_object_table) = 1
  /\ reader.literals = << Bytes(<< "*" >>) >>
  /\ lookup.st = "ok"
  /\ lookup.referenced_type = "C string"
  /\ lookup.number = 0
  /\ returned = TypedValue(Bytes(<< "*" >>), ValBytes(Bytes(<< "*" >>)))

\* The step takes the event that ends a class chain: the classes read for
\* SingleClass events are constructed and, where the chain is that of an object
\* begun, the object.
ChainEnds ==
  /\ calls # << >>
  /\ event'.t \in { "None", "ObjectReference" }
  /\ \/ Top.k = "class_chain"
     \/ Len(calls) >= 2 /\ calls[Len(calls) - 1].k = "object_class"

RECURSIVE Weighted(_)
Weighted(most_significant_first) ==
  IF most_significant_first = << >> THEN 0
  ELSE Weighted(SubSeq(most_significant_first, 1, Len(most_significant_first) - 1)) * 256
       + most_significant_first[Len(most_significant_first)]

Interpreted(data, byte_order, signed) ==
  LET ordered == IF byte_order = "big" THEN data
                 ELSE [i \in 1..Len(data) |-> data[Len(data) + 1 - i]]
  IN  IF signed /\ ordered[1] >= 128
      THEN Weighted(ordered) - (IF Len(data) = 2 THEN 65536 ELSE 65536 * 65536)
      ELSE Weighted(ordered)

\* C17 (integer decoding): for a head byte h outside the tag range
\* _read_integer returns h when a signed integer is asked for and h mod 256 when
\* an unsigned one is, and reads nothing more; for h = -127 it returns the next
\* 2 bytes and for h = -126 the next 4 bytes, taken in the byte order of the
\* stream with the signedness asked for; every other head byte of the tag
\* range, TAG_FLOATING_POINT among them, raises InvalidTypedStreamError.
C17_IntegerDecoding ==
  [][operation'.name = "_read_integer" /\ operation'.type_encoding[1] # NoHead =>
       LET h == operation'.type_encoding[1]
           signed == operation'.type_encoding[2]
           size == IF h = -127 THEN 2 ELSE 4
       IN  IF h \notin -128..-111
           THEN /\ raised' = ""
                /\ event' = EvInt(IF signed THEN h ELSE h % 256)
                /\ reader'.unread = reader.unread
           ELSE IF h \in { -127, -126 }
           THEN reader.unread >= size =>
                  /\ raised' = ""
                  /\ reader'.unread = reader.unread - size
                  /\ Len(reader'.raw) = size
                  /\ event' = EvInt(Interpreted(reader'.raw, reader.byte_order, signed))
           ELSE /\ raised' = "InvalidTypedStreamError"
                /\ reader'.unread = reader.unread]_vars

\* The two bytes ff 91 after TAG_INTEGER_2 were read as the signed integer -111
\* from a big-endian stream.
C17_Witness ==
  /\ operation = Operation("_read_integer", << TAG_INTEGER_2, TRUE >>)
  /\ reader.byte_order = "big"
  /\ reader.raw = << 255, 145 >>
  /\ event = EvInt(-111)

\* C18 (class names are non-empty): every class name a SingleClass event
\* carries is a byte string of at least one byte; a literal class whose name is
\* nil or has no bytes is rejected.
C18_ClassNamesNonEmpty ==
  event.t = "SingleClass" => event.s # None /\ event.s # << >>

\* decode_data_object is running and has read its length.
DataArrayAwaited == calls # << >> /\ calls[1].k = "decode_data_array"

\* The length N that decode_data_object has read.
DataObjectLength == calls[1].values[1].n

\* C19 (decode_data_object): it reads one group i as a length N, then one group
\* [Nc] of N bytes, and returns exactly N bytes; a negative N raises before the
\* array group is read; and an array whose declared length, the number of
\* bytes read for it, differs from N raises.
C19_DataObject ==
  [][/\ /\ calls # << >>
        /\ calls[1].k = "decode_data_object"
        /\ event.t = "int"
        /\ event.n < 0
        /\ event'.t = "EndTypedValues"
        => /\ raised' = "ValueError"
           /\ calls' = << >>
           /\ returned' = returned
           /\ groups' = groups
           /\ Len(groups) = 1
     /\ DataArrayAwaited /\ event.t = "ByteArray" /\ Len(event.s) # DataObjectLength =>
          /\ raised' = "ValueError"
          /\ calls' = << >>
          /\ returned' = returned
     /\ DataArrayAwaited /\ calls' = << >> /\ raised' = "" =>
          /\ DataObjectLength >= 0
          /\ returned'.t = "bytes"
          /\ Len(returned'.s) = DataObjectLength
          /\ event = ByteArray(Bytes(<< "c" >>), returned'.s)
          /\ Len(groups') = 2]_vars

\* decode_data_object has returned two bytes.
C19_Witness ==
  /\ operation.name = "decode_data_object"
  /\ calls = << >>
  /\ raised = ""
  /\ returned = ValBytes(<< 1, 2 >>)

\* C20 (ownership on close): a close() of the reader leaves the raw stream
\* closed if and only if the reader owns it, also when it is __init__ that
\* closes because the header raised; the stream of a reader that does not own
\* it is never closed, neither by the reader nor by an Unarchiver on it; an
\* Unarchiver created with close=False does not close its reader; and a close()
\* after the first changes nothing.
C20_CloseOwnership ==
  /\ [](/\ ~reader.close_stream => ~reader.closed
        /\ constructed = "raised" => closes = 1 /\ reader.closed = reader.close_stream)
  /\ [][/\ reader'.close_stream = reader.close_stream
        /\ close_reader' = close_reader
        /\ closes' # closes => reader'.closed = reader.close_stream
        /\ reader'.closed # reader.closed => closes' = closes + 1
        /\ closes >= 1 /\ closes' # closes => reader' = reader
        /\ CloseUnarchiver /\ ~close_reader => reader' = reader /\ closes' = closes]_vars

\* A reader that owns its stream was closed twice, the last time by its
\* Unarchiver, after an event was read.
C20_Witness ==
  /\ constructed = "yes"
  /\ event # NoEvent
  /\ operation.name = "close"
  /\ close_reader
  /\ closes = MaxCloses
  /\ reader.closed

\* The innermost suspended generator, the one the next next() resumes.
Innerframe == generators[Len(generators)]

\* The next next() of a constructed reader begins to read a value whose type
\* encoding is that of an array.
ArrayEntered ==
  /\ constructed = "yes"
  /\ generators # << >>
  /\ EncodingOf(generators) # << >>
  /\ StartsWith(EncodingOf(generators), "[")
  /\ parse_array_encoding(EncodingOf(generators)).ok

\* C21 (array events): for an array encoding [N T] the reader emits, when T is c
\* or C, one ByteArray event with the next N raw bytes and no BeginArray; for
\* every other T it emits BeginArray(T, N), which leaves N elements to read; each
\* next() that resumes the loop of an array with elements left reads a value
\* under T and leaves one element fewer, and with no element left it emits
\* EndArray, which closes the BeginArray.
C21_ArrayEvents ==
  [][/\ ArrayEntered /\ raised' = "" =>
          LET parsed == parse_array_encoding(EncodingOf(generators))
          IN  IF parsed.element \in { Bytes(<< "c" >>), Bytes(<< "C" >>) }
              THEN /\ event'.t = "ByteArray"
                   /\ Len(event'.s) = parsed.length
                   /\ reader'.unread = reader.unread - parsed.length
                   /\ unmatched' = unmatched
              ELSE /\ event' = BeginArray(parsed.element, parsed.length)
                   /\ Len(generators') = Len(generators) + 1
                   /\ generators'[Len(generators')] =
                        Frame("array", << parsed.element >>, parsed.length)
     /\ constructed = "yes" /\ generators # << >> /\ Innerframe.k = "array" /\ raised' = "" =>
          IF Innerframe.n = 0
          THEN /\ event' = EndArray
               /\ Innermost = "BeginArray"
               /\ unmatched' = SubSeq(unmatched, 1, Len(unmatched) - 1)
               /\ reader'.unread = reader.unread
          ELSE /\ EncodingOf(generators) = Innerframe.encs[1]
               /\ event'.t # "EndArray"
               /\ generators'[Len(generators)] =
                    Frame("array", Innerframe.encs, Innerframe.n - 1)]_vars

\* The opening bracket that a closing bracket closes.
OpenerOf(ch) ==
  CASE ch = Ord(")") -> Ord("(")
    [] ch = Ord("]") -> Ord("[")
    [] ch = Ord("}") -> Ord("{")
    [] OTHER -> 0

\* The opening brackets of e not closed after its first i characters, innermost
\* last, or << 0 >> once a closing bracket closed no bracket of its kind.
RECURSIVE OpenAfter(_, _)
OpenAfter(e, i) ==
  IF i = 0 THEN << >>
  ELSE LET before == OpenAfter(e, i - 1)
           ch     == e[i]
       IN  IF before = << 0 >> THEN before
           ELSE IF ch \in OpenParens THEN Append(before, ch)
           ELSE IF ch \notin CloseParens THEN before
           ELSE IF before # << >> /\ before[Len(before)] = OpenerOf(ch)
           THEN SubSeq(before, 1, Len(before) - 1)
           ELSE << 0 >>

\* The brackets of e are balanced.
Balanced(e) == OpenAfter(e, Len(e)) = << >>

\* The number of opening brackets less the number of closing brackets among the
\* characters lo..hi of e.
BracketExcess(e, lo, hi) ==
  Cardinality({ i \in lo..hi : e[i] \in OpenParens })
  - Cardinality({ i \in lo..hi : e[i] \in CloseParens })

\* The opening bracket at index i of e is never closed.
UnclosedAt(e, i) ==
  /\ e[i] \in OpenParens
  /\ \A j \in i..Len(e) : BracketExcess(e, i, j) > 0

\* A complete single-type encoding: one character that is no bracket, or a
\* bracketed span that closes at depth zero with its last character only.
IsSingleEncoding(piece) ==
  \/ Len(piece) = 1 /\ piece[1] \notin OpenParens \cup CloseParens
  \/ /\ Len(piece) >= 2
     /\ piece[1] \in OpenParens
     /\ Balanced(piece)
     /\ \A j \in 1..(Len(piece) - 1) : OpenAfter(piece, j) # << >>

\* C22 (split and join): for an encoding string e with balanced brackets,
\* split_encodings(e) raises nothing and yields pieces that are each a complete
\* single-type encoding and that join_encodings joins to e again; for a string
\* with an opening bracket that is never closed it raises ValueError.
C22_SplitJoin ==
  /\ operation.name \in { "split_encodings", "join_encodings" } =>
       LET e == operation.type_encoding
       IN  /\ Balanced(e) =>
                /\ raised = ""
                /\ returned.t = "list"
                /\ \A i \in 1..Len(returned.l) :
                     returned.l[i].t = "bytes" /\ IsSingleEncoding(returned.l[i].s)
           /\ (\E i \in 1..Len(e) : UnclosedAt(e, i)) => raised = "ValueError"
  /\ operation.name = "join_encodings" => encodings.expected = operation.type_encoding

\* The string [{}]i was split into its two pieces and joined again.
C22_Witness ==
  /\ operation = Operation("join_encodings", Bytes(<< "[", "{", "}", "]", "i" >>))
  /\ Len(returned.l) = 2
  /\ returned.l[1].s = Bytes(<< "[", "{", "}", "]" >>)
  /\ encodings.expected = encodings.actual
\* C30: reference bounds.  A shared-string reference resolved by the reader has a
\* decoded index i with 0 <= i < the length of the shared_string_table, and an
\* object reference resolved by _lookup_reference has a number i with
\* 0 <= i < the length of the shared_object_table: a negative index never
\* resolves to an entry.
C30_ReferenceBounds ==
  /\ reader.reference # << >> =>
        /\ 0 <= reader.reference[1]
        /\ reader.reference[1] < Len(reader.shared_string_table)
  /\ lookup.st = "ok" =>
        /\ 0 <= lookup.number
        /\ lookup.number < Len(shared_object_table)

\* The call the innermost call of the Unarchiver returns to.
Caller == calls[Len(calls) - 1]

\* A step in which a class chain takes its terminator without raising.
ChainTerminated ==
  /\ calls # << >>
  /\ Top.k = "class_chain"
  /\ event'.t \in { "None", "ObjectReference" }
  /\ lookup'.st \in { "", "ok" }
  /\ raised' # "StopIteration"
  /\ reader' # reader

\* C27: class chain assembly.  A class chain of n >= 1 SingleClass events and
\* its terminator appends exactly n class entries to the shared_object_table, in
\* the order of the events and none for the terminator; the i-th new Class has
\* the name and version of the i-th event and the (i+1)-th new Class as its
\* superclass, the last one has None for a nil terminator and the referenced
\* Class for a reference; the value returned is the first new Class.
C27_ClassChainAssembly ==
  [][ChainTerminated =>
       LET single_classes == Top.values
           first == Len(shared_object_table)
           new_class(i) == shared_object_table'[first + i]
       IN  /\ Len(single_classes) >= 1
           /\ Len(shared_object_table') = first + Len(single_classes)
           /\ SubSeq(shared_object_table', 1, first)
                = [k \in 1..first |->
                     IF Len(calls) >= 2 /\ Caller.k = "object_class" /\ k = Caller.n + 1
                     THEN shared_object_table'[k] ELSE shared_object_table[k]]
           /\ \A i \in 1..Len(single_classes) :
                /\ new_class(i).type = "class"
                /\ new_class(i).obj.t = "Class"
                /\ heap'[new_class(i).obj.n].k = "Class"
                /\ heap'[new_class(i).obj.n].name = single_classes[i].s
                /\ heap'[new_class(i).obj.n].version = single_classes[i].n
                /\ heap'[new_class(i).obj.n].superclass =
                     IF i < Len(single_classes) THEN new_class(i + 1).obj.n
                     ELSE IF event'.t = "None" THEN 0
                     ELSE PyIndex(shared_object_table, event'.n).obj.n
                /\ \A j \in 1..Len(single_classes) :
                     i # j => new_class(i).obj.n # new_class(j).obj.n
           /\ event'.t = "ObjectReference" =>
                /\ PyIndexOk(shared_object_table, event'.n)
                /\ PyIndex(shared_object_table, event'.n).type = "class"
           /\ Len(calls) >= 2 /\ Caller.k = "decode_typed_values" =>
                /\ Len(calls') >= Len(calls) - 1
                /\ calls'[Len(calls) - 1].values = Append(Caller.values, new_class(1).obj)
           /\ Len(calls) >= 2 /\ Caller.k = "object_class" /\ raised' = "" =>
                heap'[shared_object_table'[Caller.n + 1].obj.n].clazz = new_class(1).obj.n
     ]_vars

\* A group # of three classes A, B, C ended by nil has been decoded, and a
\* second chain of the one class D ended by a reference to B.
C27_Witness ==
  /\ raised = ""
  /\ Len(shared_object_table) = 4
  /\ \A k \in 1..4 : shared_object_table[k].type = "class"
  /\ heap[shared_object_table[1].obj.n].superclass = shared_object_table[2].obj.n
  /\ heap[shared_object_table[2].obj.n].superclass = shared_object_table[3].obj.n
  /\ heap[shared_object_table[3].obj.n].superclass = 0
  /\ heap[shared_object_table[4].obj.n].superclass = shared_object_table[2].obj.n
  /\ heap[shared_object_table[4].obj.n].name = Bytes(<< "D" >>)
  /\ lookup.st = "ok"

\* A literal object's placeholder is in the shared_object_table and not replaced
\* yet: decode_any_untyped_value(b"#") has not returned to the BeginObject
\* branch.
PlaceholderPending == Len(calls) >= 2 /\ Caller.k = "object_class"

\* The entries of the shared_object_table that are placeholders.
Placeholders == { k \in 1..Len(shared_object_table) : shared_object_table[k] = Placeholder }

\* C28: placeholder never observable.  While a literal object's placeholder is
\* in the shared_object_table, it is the only placeholder and the last object
\* entry; no _lookup_reference returns it: every lookup made before the
\* placeholder is replaced is of a class reference, and one that indexes the
\* placeholder raises on the type of the entry.  Once the class is decoded the
\* placeholder is replaced in the same step.
C28_PlaceholderNeverObservable ==
  /\ [](raised = "" =>
          Placeholders = IF PlaceholderPending THEN { Caller.n + 1 } ELSE { })
  /\ [][calls # << >> /\ lookup'.st # "" =>
          /\ lookup'.st = "ok" =>
               /\ PyIndex(shared_object_table, lookup'.number) # Placeholder
               /\ lookup'.obj # ValNone
          /\ PlaceholderPending =>
               /\ lookup'.referenced_type = "class"
               /\ lookup'.st = "ok" => lookup'.obj.t = "Class"
               /\ PyIndexOk(shared_object_table, lookup'.number)
                  /\ PyIndex(shared_object_table, lookup'.number) = Placeholder =>
                    /\ lookup'.st = "ValueError"
                    /\ raised' = "ValueError"
                    /\ lookup'.obj = ValNone]_vars

\* The class chain of a literal object ended with a reference to the object's
\* own placeholder, by the index -1, and the lookup raised.
C28_Witness ==
  /\ raised = "ValueError"
  /\ lookup.st = "ValueError"
  /\ lookup.referenced_type = "class"
  /\ lookup.number = -1
  /\ shared_object_table # << >>
  /\ shared_object_table[Len(shared_object_table)] = Placeholder
  /\ Len(shared_object_table) > 1

\* A step in which the BeginObject branch of decode_any_untyped_value, the hooks
\* of its object done, takes its next event.
ObjectEnds == calls # << >> /\ Top.k = "object_end" /\ calls' # calls /\ event' # NoEvent

\* A step in which a group decoded at the end of an object is complete.
TrailingGroupEnds ==
  /\ Len(calls) >= 2
  /\ Caller.k = "object_end"
  /\ Top.k = "decode_typed_values_end"
  /\ calls' # calls
  /\ event'.t = "EndTypedValues"

\* The generic object that takes the trailing groups of the object obj: a
\* GenericArchivedObject itself, for an NSClassSwapper what takes those of its
\* template, and 0 for every other instance of a registered class.
RECURSIVE TrailingOwner(_)
TrailingOwner(obj) ==
  IF heap[obj].k = "GenericArchivedObject" THEN obj
  ELSE IF heap[obj].name = NSClassSwapper /\ Len(heap[obj].contents) = 3
  THEN TrailingOwner(heap[obj].contents[3].n)
  ELSE 0

\* The group is appended to the contents of owner, and nothing else of the heap
\* changes.
TrailingGroupAppended(owner) ==
  /\ raised' = ""
  /\ calls' = SubSeq(calls, 1, Len(calls) - 1)
  /\ heap' = [heap EXCEPT ![owner].contents =
                              Append(@, TypedValues(Top.encodings, Top.values))]

\* C23 as stated: after the hooks of a literal object, an object whose wire
\* class resolved exactly to a registered class takes only EndObject, any other
\* event raising, and a generic object has every group up to EndObject appended
\* to its contents.
C23_TrailingDataExact ==
  [][/\ ObjectEnds /\ Top.values[1].t = "KnownArchivedObject" /\ event'.t # "EndObject" =>
          raised' = "ValueError"
     /\ ObjectEnds /\ Top.values[1].t = "GenericArchivedObject"
        /\ event'.t = "BeginTypedValues" =>
          raised' = ""
     /\ TrailingGroupEnds /\ Caller.values[1].t = "GenericArchivedObject" =>
          TrailingGroupAppended(Caller.values[1].n)]_vars

\* C23: trailing data.  After the hooks of a literal object, an instance of a
\* registered class takes only EndObject, any other event raising ValueError,
\* unless it is an NSClassSwapper whose template permits extra data; a generic
\* object, with or without a known ancestor, and such an NSClassSwapper have
\* every group up to EndObject appended in stream order to the contents of the
\* generic object, which for the NSClassSwapper is its template, and EndObject
\* adds nothing to them.
C23_TrailingData ==
  [][/\ ObjectEnds /\ TrailingOwner(Top.values[1].n) = 0 /\ event'.t # "EndObject" =>
          raised' = "ValueError"
     /\ ObjectEnds /\ TrailingOwner(Top.values[1].n) # 0 /\ event'.t # "EndObject" =>
          /\ event'.t = "BeginTypedValues"
          /\ raised' = ""
          /\ heap' = heap
     /\ ObjectEnds /\ TrailingOwner(Top.values[1].n) # 0 /\ event'.t = "EndObject" =>
          heap'[TrailingOwner(Top.values[1].n)].contents
            = heap[TrailingOwner(Top.values[1].n)].contents
     /\ TrailingGroupEnds =>
          /\ TrailingOwner(Caller.values[1].n) # 0
          /\ TrailingGroupAppended(TrailingOwner(Caller.values[1].n))]_vars

\* An NSClassSwapper whose template is generic has been returned with two
\* trailing groups, 5 and 6, in the contents of its template.
C23_Witness ==
  /\ calls = << >>
  /\ raised = ""
  /\ returned.t = "KnownArchivedObject"
  /\ heap[returned.n].name = NSClassSwapper
  /\ TrailingOwner(returned.n) # 0
  /\ TrailingOwner(returned.n) # returned.n
  /\ heap[TrailingOwner(returned.n)].contents
       = << TypedValue(Bytes(<< "i" >>), Val("int", 5, << >>, << >>, << >>)),
            TypedValue(Bytes(<< "i" >>), Val("int", 6, << >>, << >>, << >>)) >>

\* The classes a registered class is declared with, the root class first.
RECURSIVE DeclaredChain(_)
DeclaredChain(cls) ==
  IF base_cls(cls) = << >> THEN << cls >> ELSE Append(DeclaredChain(base_cls(cls)), cls)

\* The names of an archived class and its superclasses, the root class first.
RECURSIVE WireChain(_)
WireChain(archived_class) ==
  IF archived_class = 0 THEN << >>
  ELSE Append(WireChain(heap[archived_class].superclass), heap[archived_class].name)

\* The versions of an archived class and its superclasses, the root class first.
RECURSIVE WireVersions(_)
WireVersions(archived_class) ==
  IF archived_class = 0 THEN << >>
  ELSE Append(WireVersions(heap[archived_class].superclass), heap[archived_class].version)

\* The instances of registered classes init_from_unarchiver was called on.
Initialised ==
  { o \in 1..Len(heap) : heap[o].k = "KnownArchivedObject" /\ heap[o].clazz # 0 }

\* The wire class chain init_from_unarchiver was given for o agrees with the
\* declared chain of the class of o at every level.
HierarchyMatches(o) == WireChain(heap[o].clazz) = DeclaredChain(heap[o].name)

\* The hooks of o in the order of the declared chain, the root class first, each
\* with the version of the wire class at its level.
ExpectedHooks(o) ==
  [i \in 1..Len(DeclaredChain(heap[o].name)) |->
     Hook(DeclaredChain(heap[o].name)[i], WireVersions(heap[o].clazz)[i])]

IsPrefix(a, b) == Len(a) <= Len(b) /\ SubSeq(b, 1, Len(a)) = a

\* init_from_unarchiver has not returned for o.
Initialising(o) ==
  \E i \in 1..Len(calls) : calls[i].k = "init_from_unarchiver" /\ calls[i].values[1].n = o

\* C24: hook order.  The hooks called on a known instance whose wire chain
\* agrees with its declared chain are at any time the first of the hooks of the
\* declared chain taken root class first, each called once with the version of
\* the wire class at its level; once init_from_unarchiver has returned they are
\* all of them; a hook once called stays called, and nothing else has hooks.
C24_HookOrder ==
  /\ [](\A o \in Initialised :
          HierarchyMatches(o) =>
            /\ IsPrefix(heap[o].hooks, ExpectedHooks(o))
            /\ raised = "" /\ ~Initialising(o) => heap[o].hooks = ExpectedHooks(o))
  /\ [](\A o \in 1..Len(heap) : o \notin Initialised => heap[o].hooks = << >>)
  /\ [][\A o \in 1..Len(heap) : IsPrefix(heap[o].hooks, heap'[o].hooks)]_vars

\* An NSMutableString has been returned: the hooks of NSObject, NSString and
\* NSMutableString were called in this order with the versions 0, 1, 1.
C24_Witness ==
  /\ calls = << >>
  /\ raised = ""
  /\ returned.t = "KnownArchivedObject"
  /\ heap[returned.n].name = NSMutableString
  /\ heap[returned.n].hooks = << Hook(NSObject, 0), Hook(NSString, 1), Hook(NSMutableString, 1) >>

\* A step in which init_from_unarchiver is called on o.
InitCalled(o) ==
  /\ o \in 1..Len(heap')
  /\ heap'[o].k = "KnownArchivedObject"
  /\ heap'[o].clazz # 0
  /\ o \in 1..Len(heap) => heap[o].clazz = 0

\* C25: class hierarchy mismatch.  When the wire class chain given to
\* init_from_unarchiver disagrees with the declared chain of the class at some
\* level, init_from_unarchiver raises ValueError in the step it is called in,
\* the one that took the last event of the class chain (or, for the template of
\* an NSClassSwapper, the end of its group), and no hook of the object is ever
\* called.
C25_HierarchyMismatch ==
  /\ [][\A o \in 1..Len(heap') :
          InitCalled(o) /\ ~HierarchyMatches(o)' =>
            /\ raised' = "ValueError"
            /\ calls' = << >>
            /\ heap'[o].hooks = << >>
            /\ heap'[o].contents = << >>
            /\ event'.t \in { "None", "ObjectReference", "EndTypedValues" }]_vars
  /\ [](\A o \in Initialised :
          ~HierarchyMatches(o) => raised = "ValueError" /\ heap[o].hooks = << >>)

\* An NSMutableString whose wire superclass is NSObject, where NSString is
\* declared: ValueError, and no hook called.
C25_Witness ==
  /\ raised = "ValueError"
  /\ \E o \in Initialised :
       /\ heap[o].name = NSMutableString
       /\ WireChain(heap[o].clazz) = << NSObject, NSMutableString >>
       /\ heap[o].hooks = << >>

\* The versions the hook of a registered class implements.
ImplementedVersions(cls) ==
  IF cls \in { NSString, NSMutableString } THEN { 1 }
  ELSE IF cls = NSClassSwapper THEN { 42 }
  ELSE IF cls = List THEN { 0, 1 }
  ELSE { 0 }

\* The hooks called with a version they do not implement.
Rejected ==
  { << o, j >> \in (1..Len(heap)) \X (1..3) :
      /\ j <= Len(heap[o].hooks)
      /\ heap[o].hooks[j].n \notin ImplementedVersions(heap[o].hooks[j].s) }

\* A hook of o is decoding.
Hooking(o) ==
  \E i \in 1..Len(calls) : calls[i].k = "_init_from_unarchiver_" /\ calls[i].values[1].n = o

GroupReturned ==
  /\ Len(calls) >= 2
  /\ Caller.k = "decode_values_of_types"
  /\ Top.k = "decode_typed_values_end"
  /\ calls' # calls
  /\ event'.t = "EndTypedValues"

\* The encodings of the group do not match the expected ones: another count, or
\* an encoding that does not match the expected one at its place.
GroupMismatch ==
  \/ Len(Top.encodings) # Len(Caller.encodings)
  \/ \E i \in 1..Len(Top.encodings) :
       /\ i <= Len(Caller.encodings)
       /\ encoding_matches_expected(Top.encodings[i], Caller.encodings[i]) # "true"

\* value is an instance of the registered class cls or of a subclass, or a
\* generic object whose super_object is one.
IsInstance(value, cls) ==
  \/ /\ value.t = "KnownArchivedObject"
     /\ \E i \in 1..Len(DeclaredChain(heap[value.n].name)) :
          DeclaredChain(heap[value.n].name)[i] = cls
  \/ /\ value.t = "GenericArchivedObject"
     /\ heap[value.n].super_object # 0
     /\ \E i \in 1..Len(DeclaredChain(heap[heap[value.n].super_object].name)) :
          DeclaredChain(heap[heap[value.n].super_object].name)[i] = cls

\* The places of the group where a registered class is expected and the value
\* is neither nil nor an instance of it.
WrongInstances ==
  { i \in 1..Len(Top.values) :
      /\ i <= Len(Caller.expected)
      /\ Caller.expected[i].t = "type"
      /\ Top.values[i].t # "None"
      /\ ~IsInstance(Top.values[i], Caller.expected[i].s) }

\* C29: decode_values_of_types raises ValueError when the encodings of the group
\* do not match the expected ones, and otherwise TypeError when a value that is
\* not nil, at a place where a registered class is expected, is neither an
\* instance of the class or of a subclass nor a generic object whose
\* super_object is one; otherwise it raises nothing, nil being accepted: the
\* step raises no TypeError, and the caller goes on with the values.
C29_ValuesOfTypes ==
  [][GroupReturned =>
       /\ GroupMismatch => raised' = "ValueError" /\ heap' = heap
       /\ ~GroupMismatch /\ WrongInstances # { } => raised' = "TypeError" /\ heap' = heap
       /\ ~GroupMismatch /\ WrongInstances = { } =>
            /\ raised' # "TypeError"
            /\ Len(calls) >= 3 /\ calls[Len(calls) - 2].k = "_init_from_unarchiver_"
               /\ calls[Len(calls) - 2].name = NSClassSwapper =>
                 IF Top.values[1].t = "KnownArchivedObject"
                 THEN heap'[calls[Len(calls) - 2].values[1].n].contents # << >>
                 ELSE raised' = "AttributeError"]_vars

\* decode_values_of_types(NSString, b"#") was given a group @# whose first
\* value is an NSObject: TypeError.
C29_Witness ==
  /\ raised = "TypeError"
  /\ event.t = "EndTypedValues"
  /\ \E o \in Initialised :
       /\ heap[o].name = NSClassSwapper
       /\ heap[o].hooks = << Hook(NSObject, 0), Hook(NSClassSwapper, 42) >>
       /\ heap[o].contents = << >>
  /\ \E o \in Initialised : o = Len(heap) /\ heap[o].name = NSObject

====
